---- MODULE Spec2Model ----
(***************************************************************************)
(* agent-memories (src/src/index.ts): a Hono worker that stores "memory"   *)
(* records in an R2 bucket, asks the AI Search provider to reindex after   *)
(* every mutation, and serves the records over REST and over MCP JSON-RPC. *)
(*                                                                         *)
(* Each handler is cut at its awaits (the store call, the reindex fetch,   *)
(* each get of a list), so that concurrent requests interleave where the   *)
(* worker runtime lets them.                                               *)
(***************************************************************************)
EXTENDS Integers, Sequences, FiniteSets, TLC

(* ------------------------------------------------------------------ *)
(* Bounds of the exploration.                                          *)
(* ------------------------------------------------------------------ *)
\* Requests per behaviour; they may all be in flight at once.
MaxReq == 2
\* Provider result items per search response.
MaxItems == 2
\* Records in the store of a pagination traversal.
MaxKeys == 3
\* The largest limit a client following cursors asks for.
MaxLimit == 2
\* How far below zero and above the ceiling the search limits tried reach.
MaxBeyond == 2

(* ------------------------------------------------------------------ *)
(* JavaScript values, as far as the handlers look at them.             *)
(* ------------------------------------------------------------------ *)
Undef == [t |-> "undefined"]
Null == [t |-> "null"]
NaN == [t |-> "number", nan |-> TRUE]
Str(s) == [t |-> "string", s |-> s]
Num(n) == [t |-> "number", n |-> n]
Arr(a) == [t |-> "array", a |-> a]
Bool(b) == [t |-> "boolean", b |-> b]
\* crypto.randomUUID(): a string that stands for the i-th id handed out.
Uuid(i) == [t |-> "string", uuid |-> i]
\* new Date().toISOString(): the clock's reading as a sortable string.
IsoTime(n) == [t |-> "string", iso |-> n]

\* ToBoolean: what `!v`, `v || d` and `v ? a : b` test.
Truthy(v) ==
    /\ v.t \notin {"undefined", "null"}
    /\ v # Str("")
    /\ v # Num(0)
    /\ v # NaN
    /\ v # Bool(FALSE)
    /\ v # [t |-> "string", chars |-> <<>>]

\* The typeof operator (an array is an object).
TypeOf(v) ==
    IF v.t \in {"array", "null"} THEN "object" ELSE v.t

\* `v || d`
OrElse(v, d) == IF Truthy(v) THEN v ELSE d

\* A default parameter value applies to undefined only.
DefaultParam(v, d) == IF v = Undef THEN d ELSE v

(* ------------------------------------------------------------------ *)
(* Text: a sequence of tokens.  JSON.stringify writes tokens,          *)
(* JSON.parse reads them back or throws.                               *)
(* ------------------------------------------------------------------ *)
LBrace == [tok |-> "{"]
RBrace == [tok |-> "}"]
Newline == [tok |-> "nl"]
Field(k, v) == [tok |-> "field", k |-> k, v |-> v]
Prim(v) == [tok |-> "prim", v |-> v]
Raw(s) == [tok |-> "raw", s |-> s]

MemoryFields == <<"id", "content", "tags", "source", "createdAt">>

\* JSON.stringify(memory, null, 2): the object's own fields in insertion
\* order, one per line between braces.
JSONStringify(memory) ==
    <<LBrace>>
      \o [i \in 1..Len(MemoryFields) |->
             Field(MemoryFields[i], memory[MemoryFields[i]])]
      \o <<RBrace>>

IsSpace(tk) == tk = Newline

\* The tokens of a text that are not whitespace.
RECURSIVE StripSpace(_)
StripSpace(text) ==
    IF text = <<>> THEN <<>>
    ELSE IF IsSpace(Head(text)) THEN StripSpace(Tail(text))
    ELSE <<Head(text)>> \o StripSpace(Tail(text))

\* JSON.parse: insignificant whitespace is skipped; one complete object or
\* one primitive is a value; anything else is a SyntaxError.
JSONParse(text) ==
    LET t == StripSpace(text)
        n == Len(t)
    IN  IF /\ n >= 2
           /\ t[1] = LBrace
           /\ t[n] = RBrace
           /\ \A i \in 2..(n - 1) : t[i].tok = "field"
        THEN [ok |-> TRUE,
              kind |-> "object",
              val |-> [k \in {t[i].k : i \in 2..(n - 1)} |->
                          LET last == CHOOSE i \in 2..(n - 1) :
                                        /\ t[i].k = k
                                        /\ \A j \in (i + 1)..(n - 1) : t[j].k # k
                          IN  t[last].v]]
        ELSE IF n = 1 /\ t[1].tok = "prim"
        THEN [ok |-> TRUE, kind |-> "primitive", val |-> t[1].v]
        ELSE [ok |-> FALSE]

\* Array.prototype.join over pieces of text.
RECURSIVE JoinText(_, _)
JoinText(parts, sep) ==
    IF parts = <<>> THEN <<>>
    ELSE IF Len(parts) = 1 THEN parts[1]
    ELSE parts[1] \o <<sep>> \o JoinText(Tail(parts), sep)

\* memory.tags.join(','): the labels with a comma between them.
RECURSIVE JoinLabels(_)
JoinLabels(a) ==
    IF a = <<>> THEN <<>>
    ELSE IF Len(a) = 1 THEN <<a[1]>>
    ELSE <<a[1], ",">> \o JoinLabels(Tail(a))

(* ------------------------------------------------------------------ *)
(* The durable store (R2 bucket) and the search provider.              *)
(* ------------------------------------------------------------------ *)
\* `memories/${id}.json`
Key(id) == <<"memories/", id, ".json">>

\* The id a key was built from.
KeyId(key) == key[2]

\* BucketPut, had a put replaced the bucket's contents.
BucketPut_Replaces(bucket, key, body, meta) ==
    [k \in {key} |-> [body |-> body, meta |-> meta]]

\* MEMORIES_BUCKET.put(key, body, {customMetadata}): the key holds the new
\* object, every other key is left alone.
BucketPut(bucket, key, body, meta) ==
    [k \in (DOMAIN bucket) \cup {key} |->
        IF k = key THEN [body |-> body, meta |-> meta] ELSE bucket[k]]

\* BucketDelete, had a delete emptied the bucket.
BucketDelete_Clears(bucket, key) == <<>>

\* MEMORIES_BUCKET.delete(key): the key is gone; deleting a key that is not
\* there succeeds and changes nothing.
BucketDelete(bucket, key) ==
    [k \in (DOMAIN bucket) \ {key} |-> bucket[k]]

\* The object MEMORIES_BUCKET.get(key) resolves to: the stored body, or null.
BucketGet(bucket, key) ==
    IF key \in DOMAIN bucket THEN [found |-> TRUE, body |-> bucket[key].body]
    ELSE [found |-> FALSE]

(* ------------------------------------------------------------------ *)
(* saveMemory and triggerResync, up to their awaits.                   *)
(* ------------------------------------------------------------------ *)
\* NewMemory, had it dropped the source it was given.
NewMemory_IgnoresSource(id, content, tags, source, at) ==
    [id |-> Uuid(id),
     content |-> content,
     tags |-> DefaultParam(tags, Arr(<<>>)),
     source |-> Str("user"),
     createdAt |-> IsoTime(at)]

\* The Memory object saveMemory builds; tags and source are default
\* parameters.
NewMemory(id, content, tags, source, at) ==
    [id |-> Uuid(id),
     content |-> content,
     tags |-> DefaultParam(tags, Arr(<<>>)),
     source |-> DefaultParam(source, Str("user")),
     createdAt |-> IsoTime(at)]

\* memory.tags.join(',') is evaluated while the arguments of put are built:
\* it throws a TypeError unless tags is an array.
PutArgsThrow(memory) == memory.tags.t # "array"

\* customMetadata of the stored object.
CustomMetadata(memory) ==
    [tags |-> JoinLabels(memory.tags.a),
     source |-> memory.source,
     createdAt |-> memory.createdAt]

\* ResyncResult, had it not looked at result.success.
ResyncResult_IgnoresSuccess(result) ==
    [success |-> TRUE,
     jobId |-> IF result.result = Undef THEN Undef ELSE result.result.id]

\* triggerResync once response.json() has resolved to `result`.
ResyncResult(result) ==
    IF ~Truthy(result.success)
    THEN [success |-> FALSE,
          error |->
            LET first == IF /\ result.errors.t = "array"
                            /\ Len(result.errors.a) >= 1
                            /\ "message" \in DOMAIN result.errors.a[1]
                         THEN result.errors.a[1].message
                         ELSE Undef
            IN  OrElse(first, Str("Unknown error"))]
    ELSE [success |-> TRUE,
          jobId |-> IF result.result = Undef THEN Undef ELSE result.result.id]

\* What the provider answers to POST .../jobs: accepted with a job id, or
\* rejected with a message.
Accepted == [success |-> Bool(TRUE),
             result |-> [id |-> Str("job")],
             errors |-> Arr(<<>>)]
RejectedWithMessage == [success |-> Bool(FALSE),
                        result |-> Undef,
                        errors |-> Arr(<<[message |-> Str("quota")]>>)]
ProviderAnswers == {Accepted, RejectedWithMessage}

(* ------------------------------------------------------------------ *)
(* Responses.                                                          *)
(* ------------------------------------------------------------------ *)
\* c.json(body, status)
Json(status, body) == [status |-> status, body |-> body]

\* What the framework answers when a handler throws.
ServerError == Json(500, Str("Internal Server Error"))

\* mcpToolResult(id, text, isError)
McpToolResult(id, text, isError) ==
    Json(200, [jsonrpc |-> "2.0", id |-> id,
               result |-> [content |-> <<[type |-> "text", text |-> text]>>,
                           isError |-> isError]])

(* ------------------------------------------------------------------ *)
(* Create: what POST /memories and the save_memory tool decide.        *)
(* ------------------------------------------------------------------ *)
\* POST /memories: `!body.content || typeof body.content !== 'string'`
RestCreateRejects(body) ==
    ~Truthy(body.content) \/ TypeOf(body.content) # "string"

\* McpSaveRejects, had the tool not checked its content.
McpSaveRejects_Never(args) == FALSE

\* save_memory: `!content`
McpSaveRejects(args) == ~Truthy(args.content)

\* The arguments POST /memories passes to saveMemory.
RestSaveArgs(body) ==
    [content |-> body.content, tags |-> body.tags, source |-> body.source]

\* The arguments the save_memory tool passes to saveMemory.
McpSaveArgs(args) ==
    [content |-> args.content,
     tags |-> OrElse(args.tags, Arr(<<>>)),
     source |-> OrElse(args.source, Str("user"))]

\* What saveMemory's caller answers with the Memory saveMemory returned.
CreateResponse(kind, r, memory) ==
    IF kind = "restCreate"
    THEN Json(200, [success |-> TRUE, memory |-> memory])
    ELSE McpToolResult(r, [msg |-> "Memory saved successfully with ID: ",
                           id |-> memory.id], FALSE)

(* ------------------------------------------------------------------ *)
(* Delete and list: what the handlers compute.                         *)
(* ------------------------------------------------------------------ *)
\* DeleteBody, had a rejected resync made the delete a failure.
DeleteBody_FailsOnRejection(rs) ==
    [success |-> rs.success,
     resync |-> IF rs.success THEN [jobId |-> rs.jobId]
                ELSE [error |-> rs.error]]

\* The body DELETE answers with, given triggerResync's result.
DeleteBody(rs) ==
    [success |-> TRUE,
     resync |-> IF rs.success THEN [jobId |-> rs.jobId]
                ELSE [error |-> rs.error]]

DefaultListLimit == 20

\* A query parameter made of characters.
Chars(cs) == [t |-> "string", chars |-> cs]

DigitChars == <<"0", "1", "2", "3", "4", "5", "6", "7", "8", "9">>

IsDigit(c) == \E d \in 1..Len(DigitChars) : DigitChars[d] = c

DigitValue(c) == (CHOOSE d \in 1..Len(DigitChars) : DigitChars[d] = c) - 1

\* The value of the longest prefix of digits of cs, continuing from acc.
RECURSIVE LeadingDigits(_, _)
LeadingDigits(cs, acc) ==
    IF cs = <<>> \/ ~IsDigit(Head(cs)) THEN acc
    ELSE LeadingDigits(Tail(cs), acc * 10 + DigitValue(Head(cs)))

\* parseInt(s, 10): an optional sign, then the leading digits; NaN when
\* there is none.
ParseInt(v) ==
    LET cs == v.chars
        neg == cs # <<>> /\ Head(cs) = "-"
        body == IF cs # <<>> /\ Head(cs) \in {"-", "+"} THEN Tail(cs) ELSE cs
    IN  IF body = <<>> \/ ~IsDigit(Head(body)) THEN NaN
        ELSE Num(IF neg THEN 0 - LeadingDigits(body, 0)
                 ELSE LeadingDigits(body, 0))

\* `limitParam ? parseInt(limitParam, 10) : 20`
ListLimit(limitParam) ==
    IF Truthy(limitParam) THEN ParseInt(limitParam) ELSE Num(DefaultListLimit)

\* The ids of a set of keys, ascending: the bucket lists in key order.
RECURSIVE Ascending(_)
Ascending(S) ==
    IF S = {} THEN <<>>
    ELSE LET m == CHOOSE x \in S : \A y \in S : x <= y
         IN  <<m>> \o Ascending(S \ {m})

\* The continuation cursor after the key of id: an opaque non-empty string.
CursorAfter(id) == [t |-> "string", after |-> id]

\* MEMORIES_BUCKET.list({prefix, limit, cursor}): at most `limit` keys with
\* the prefix, in key order, from after the cursor when one is passed
\* (`...(cursor && { cursor })`); truncated, with the next cursor, exactly
\* when keys remain.
BucketList(bucket, prefix, limit, cursor) ==
    LET from == IF Truthy(cursor) THEN cursor.after ELSE -1
        rest == Ascending({KeyId(k) : k \in {k \in DOMAIN bucket :
                                               k[1] = prefix /\ KeyId(k) > from}})
        n == IF Len(rest) <= limit.n THEN Len(rest) ELSE limit.n
    IN  [objects |-> [i \in 1..n |-> Key(rest[i])],
         truncated |-> n < Len(rest),
         cursor |-> IF n < Len(rest) THEN CursorAfter(rest[n]) ELSE Undef]

\* ListTurn, had it pushed what the get resolved to even when that is null.
ListTurn_PushesNull(memories, obj) ==
    IF ~obj.found THEN [threw |-> FALSE, memories |-> Append(memories, Null)]
    ELSE [threw |-> FALSE,
          memories |-> Append(memories, JSONParse(obj.body).val)]

\* One turn of the loop over listed.objects: an object that is there is
\* parsed (`obj.json()`, which throws on text that is not JSON) and pushed,
\* one that is gone (`obj` is null) is skipped.
ListTurn(memories, obj) ==
    IF ~obj.found THEN [threw |-> FALSE, memories |-> memories]
    ELSE LET parsed == JSONParse(obj.body)
         IN  IF parsed.ok
             THEN [threw |-> FALSE, memories |-> Append(memories, parsed.val)]
             ELSE [threw |-> TRUE, memories |-> memories]

\* ListBody, had it never passed the bucket's cursor on.
ListBody_DropsCursor(memories, listing) ==
    [memories |-> memories, cursor |-> Null]

\* The body GET /memories answers with.
ListBody(memories, listing) ==
    [memories |-> memories,
     cursor |-> IF listing.truncated THEN listing.cursor ELSE Null]

(* ------------------------------------------------------------------ *)
(* Search: what GET /memories/search, the search_memories tool and     *)
(* searchMemories compute.                                             *)
(* ------------------------------------------------------------------ *)
DefaultSearchLimit == 5
MaxSearchResults == 50

\* Math.min(a, b) of two numbers (NaN if either is).
MathMin(a, b) ==
    IF a = NaN \/ b = NaN THEN NaN
    ELSE IF a.n <= b.n THEN a ELSE b

\* The request searchMemories sends to autorag.search.
SearchRequest(query, limit) ==
    [query |-> query,
     max_num_results |-> MathMin(DefaultParam(limit, Num(DefaultSearchLimit)),
                                 Num(MaxSearchResults)),
     rewrite_query |-> TRUE,
     score_threshold |-> "0.1"]

\* GET /memories/search: `!query`
RestSearchRejects(q) == ~Truthy(q.q)

\* search_memories: `!query`
McpSearchRejects(args) == ~Truthy(args.query)

\* The arguments GET /memories/search passes to searchMemories:
\* `limitParam ? parseInt(limitParam, 10) : 5`
RestSearchArgs(q) ==
    [query |-> q.q,
     limit |-> IF Truthy(q.limit) THEN ParseInt(q.limit)
               ELSE Num(DefaultSearchLimit)]

\* The arguments the search_memories tool passes to searchMemories:
\* `(toolArgs?.limit as number) || 5`
McpSearchArgs(args) ==
    [query |-> args.query,
     limit |-> OrElse(args.limit, Num(DefaultSearchLimit))]

\* The chunks of an item that have type 'text', in order.
RECURSIVE TextChunks(_)
TextChunks(content) ==
    IF content = <<>> THEN <<>>
    ELSE IF Head(content).type = "text"
    THEN <<Head(content).text>> \o TextChunks(Tail(content))
    ELSE TextChunks(Tail(content))

\* item.content.filter(c => c.type === 'text').map(c => c.text).join('\n')
TextContent(item) == JoinText(TextChunks(item.content), Newline)

\* `{ ...memory, score: item.score }`: the own enumerable properties of what
\* JSON.parse returned (a primitive has none that this model looks at), then
\* score.
SpreadWithScore(parsed, score) ==
    IF parsed.kind = "object"
    THEN [k \in (DOMAIN parsed.val) \cup {"score"} |->
             IF k = "score" THEN score ELSE parsed.val[k]]
    ELSE [k \in {"score"} |-> score]

\* One turn of the loop of searchMemories: what is pushed for an item.
Normalize(item, at) ==
    LET textContent == TextContent(item)
        parsed == JSONParse(textContent)
    IN  IF parsed.ok
        THEN SpreadWithScore(parsed, item.score)
        ELSE [id |-> item.file_id,
              content |-> [t |-> "string", text |-> textContent],
              tags |-> Arr(<<>>),
              source |-> Str("auto"),
              createdAt |-> IsoTime(at),
              score |-> item.score]

\* searchMemories after the provider has answered: one result per item, in
\* order.
NormalizeAll(items, at) == [i \in 1..Len(items) |-> Normalize(items[i], at)]

\* Formatting one result for the search_memories text throws a TypeError
\* when m.tags is undefined or null (`m.tags.length`), or is a non-empty
\* string (`m.tags.join` is not a function).
FormatThrows(m) ==
    \/ "tags" \notin DOMAIN m
    \/ m.tags.t \in {"undefined", "null"}
    \/ m.tags.t = "string" /\ Truthy(m.tags)

\* One line of the search_memories text.
FormatLine(m, i) ==
    [n |-> i,
     content |-> IF "content" \in DOMAIN m THEN m.content ELSE Undef,
     tags |-> IF m.tags.t = "array" /\ Len(m.tags.a) > 0
              THEN JoinLabels(m.tags.a) ELSE <<>>,
     relevance |-> m.score]

\* What the search_memories tool answers with the results of searchMemories
\* (a throw of the formatting is a throw of the handler).
McpSearchResponse(id, memories) ==
    IF memories = <<>>
    THEN McpToolResult(id, [msg |-> "No memories found matching the query."],
                       FALSE)
    ELSE IF \E i \in 1..Len(memories) : FormatThrows(memories[i])
    THEN ServerError
    ELSE McpToolResult(id,
            [msg |-> "Found relevant memories:",
             count |-> Len(memories),
             lines |-> [i \in 1..Len(memories) |-> FormatLine(memories[i], i)]],
            FALSE)

(* ------------------------------------------------------------------ *)
(* What the callers send and what the provider returns.                *)
(* ------------------------------------------------------------------ *)
\* The bodies POST /memories is sent, and the arguments save_memory is
\* called with.
CreateInputs ==
    {[content |-> Undef, tags |-> Undef, source |-> Undef],
     [content |-> Str(""), tags |-> Arr(<<"style">>), source |-> Str("auto")],
     [content |-> Str("Always use tabs"), tags |-> Undef, source |-> Undef],
     [content |-> Str("Always use tabs"), tags |-> Arr(<<"style">>),
      source |-> Str("auto")]}

\* The query parameters GET /memories is sent.
ListInputs ==
    {[cursor |-> Undef, limit |-> Undef],
     [cursor |-> Undef, limit |-> Chars(<<"1">>)]}

\* The query parameters GET /memories/search is sent.
RestSearchInputs ==
    {[q |-> query, limit |-> Undef] :
        query \in {Undef, Str(""), Str("tabs vs spaces")}}

\* The arguments search_memories is called with.
McpSearchInputs ==
    {[query |-> query, limit |-> Undef] :
        query \in {Undef, Str(""), Str("tabs vs spaces")}}

\* A Memory saved before the worker started, and the bucket that holds it.
Memory0 == NewMemory(0, Str("Never use semicolons"), Undef, Undef, 0)
Bucket0 ==
    BucketPut(<<>>, Key(0), JSONStringify(Memory0), CustomMetadata(Memory0))

\* A provider result item holding the stored text of a Memory.
ItemOf(memory, score) ==
    [file_id |-> Str("file-a"), score |-> Num(score),
     content |-> <<[type |-> "text", text |-> JSONStringify(memory)]>>]

\* The result lists autorag.search resolves to.
SearchResults == {<<>>, <<ItemOf(Memory0, 82)>>}

\* Everything the requests of a behaviour are drawn from.
Universe ==
    [restCreates |-> CreateInputs,
     mcpCreates |-> CreateInputs,
     lists |-> ListInputs,
     restSearches |-> RestSearchInputs,
     mcpSearches |-> McpSearchInputs,
     results |-> SearchResults,
     answers |-> ProviderAnswers]

(* ------------------------------------------------------------------ *)
(* State.                                                              *)
(* ------------------------------------------------------------------ *)
VARIABLES
    store,      \* the R2 bucket: key -> [body, meta]
    index,      \* the keys the provider's index was last built over
    jobs,       \* accepted reindex jobs that have not run yet
    nextId,     \* the next id crypto.randomUUID() hands out
    now,        \* the wall clock, as last read
    req,        \* the requests: handler, position, locals, response
    lastMut,    \* history: the request that made the latest store mutation
    env,        \* what the requests of this behaviour are drawn from
    trav        \* a client following the cursors of GET /memories

vars == <<store, index, jobs, nextId, now, req, lastMut, env, trav>>

Req == 1..MaxReq

\* A request that has not arrived.  answer, existed and known are history:
\* the provider's answer to the reindex request, whether the key was there
\* when the delete ran, and the ids creates had returned when the list ran.
Idle ==
    [kind |-> "none", pc |-> "idle", inp |-> Undef, mem |-> Undef,
     storeDone |-> FALSE, nReindex |-> 0, rs |-> Undef, answer |-> Undef,
     existed |-> FALSE, searched |-> Undef,
     listed |-> <<>>, page |-> <<>>, listing |-> Undef, known |-> {},
     resp |-> Undef]

\* Requests arrive in slot order (the slots are interchangeable).
CanArrive(r) ==
    /\ req[r].pc = "idle"
    /\ \A q \in 1..(r - 1) : req[q].pc # "idle"

\* No traversal.
NoTraversal == [limit |-> Undef, cursor |-> Undef, pages |-> <<>>, done |-> TRUE]

\* The worker holds no state of its own; the bucket is empty or holds what
\* an earlier run saved, and the index was built over it.
Init ==
    /\ store \in {<<>>, Bucket0}
    /\ index = DOMAIN store
    /\ jobs = 0
    /\ nextId = 1
    /\ now = 0
    /\ req = [r \in Req |-> Idle]
    /\ lastMut = 0
    /\ env = Universe
    /\ trav = NoTraversal

(* ------------------------------------------------------------------ *)
(* Create: POST /memories and the save_memory tool, then saveMemory.   *)
(* ------------------------------------------------------------------ *)
\* saveMemory up to its first await: the Memory is built with a fresh id and
\* the clock's reading (every reading is later than the one before; the
\* code never compares two readings), and put is called (or building its
\* arguments throws).
SaveMemoryBegin(r, kind, inp, args) ==
    LET memory == NewMemory(nextId, args.content, args.tags, args.source,
                            now + 1)
    IN  /\ nextId' = nextId + 1
        /\ now' = now + 1
        /\ req' = [req EXCEPT ![r] =
              IF PutArgsThrow(memory)
              THEN [Idle EXCEPT !.kind = kind, !.pc = "done", !.inp = inp,
                                !.resp = ServerError]
              ELSE [Idle EXCEPT !.kind = kind, !.pc = "put", !.inp = inp,
                                !.mem = memory]]

\* POST /memories arrives.
RestCreate(r) ==
    \E body \in env.restCreates :
        /\ CanArrive(r)
        /\ IF RestCreateRejects(body)
           THEN /\ req' = [req EXCEPT ![r] =
                      [Idle EXCEPT !.kind = "restCreate", !.pc = "done",
                                   !.inp = body,
                                   !.resp = Json(400, [error |->
                                      "content is required and must be a string"])]]
                /\ UNCHANGED <<nextId, now>>
           ELSE SaveMemoryBegin(r, "restCreate", body, RestSaveArgs(body))
        /\ UNCHANGED <<store, index, jobs, lastMut, env, trav>>

\* POST /mcp arrives with tools/call save_memory.
McpSave(r) ==
    \E args \in env.mcpCreates :
        /\ CanArrive(r)
        /\ IF McpSaveRejects(args)
           THEN /\ req' = [req EXCEPT ![r] =
                      [Idle EXCEPT !.kind = "mcpSave", !.pc = "done",
                                   !.inp = args,
                                   !.resp = McpToolResult(r,
                                      [msg |-> "Error: content is required"],
                                      TRUE)]]
                /\ UNCHANGED <<nextId, now>>
           ELSE SaveMemoryBegin(r, "mcpSave", args, McpSaveArgs(args))
        /\ UNCHANGED <<store, index, jobs, lastMut, env, trav>>

\* SaveMemoryPutOk, had saveMemory returned right after the put.
SaveMemoryPutOk_SkipsResync(r) ==
    /\ store' = BucketPut(store, Key(req[r].mem.id.uuid),
                          JSONStringify(req[r].mem), CustomMetadata(req[r].mem))
    /\ lastMut' = r
    /\ req' = [req EXCEPT ![r].pc = "done", ![r].storeDone = TRUE,
                          ![r].resp = CreateResponse(req[r].kind, r, req[r].mem)]

\* `await env.MEMORIES_BUCKET.put(...)` resolves: the object is stored.
SaveMemoryPutOk(r) ==
    /\ store' = BucketPut(store, Key(req[r].mem.id.uuid),
                          JSONStringify(req[r].mem), CustomMetadata(req[r].mem))
    /\ lastMut' = r
    /\ req' = [req EXCEPT ![r].pc = "resync", ![r].storeDone = TRUE]

\* SaveMemoryPutFails, had saveMemory swallowed the failure of the put.
SaveMemoryPutFails_Swallowed(r) ==
    /\ req' = [req EXCEPT ![r].pc = "resync"]
    /\ UNCHANGED <<store, lastMut>>

\* `await env.MEMORIES_BUCKET.put(...)` rejects: saveMemory throws.
SaveMemoryPutFails(r) ==
    /\ req' = [req EXCEPT ![r].pc = "done", ![r].resp = ServerError]
    /\ UNCHANGED <<store, lastMut>>

\* saveMemory at its put.
SaveMemoryPut(r) ==
    /\ req[r].kind \in {"restCreate", "mcpSave"}
    /\ req[r].pc = "put"
    /\ SaveMemoryPutOk(r) \/ SaveMemoryPutFails(r)
    /\ UNCHANGED <<index, jobs, nextId, now, env, trav>>

\* How a call of triggerResync can end: the provider answers, accepting (a
\* job is queued) or rejecting, and the answer is turned into the result;
\* or the fetch or response.json() throws, the provider having queued a job
\* or not.
ResyncOutcomes ==
    {[threw |-> FALSE, rs |-> ResyncResult(answer), answer |-> answer,
      queued |-> Truthy(answer.success)] : answer \in env.answers}
    \cup
    {[threw |-> TRUE, rs |-> Undef, answer |-> Undef, queued |-> queued] :
        queued \in BOOLEAN}

\* TriggerResync, had the reindex request never reached the provider.
TriggerResync_NeverQueues(out) ==
    jobs' = jobs

\* triggerResync ending with `out`: the provider has queued a job or not.
TriggerResync(out) ==
    jobs' = IF out.queued THEN jobs + 1 ELSE jobs

\* SaveMemoryReturn, had it treated a rejected resync as a failure of the
\* create.
SaveMemoryReturn_FailsOnRejection(r, out) ==
    req' = [req EXCEPT ![r].pc = "done",
                       ![r].nReindex = @ + 1,
                       ![r].rs = out.rs,
                       ![r].answer = out.answer,
                       ![r].resp = IF out.threw \/ ~out.rs.success
                                   THEN ServerError
                                   ELSE CreateResponse(req[r].kind, r, req[r].mem)]

\* saveMemory after triggerResync: `return memory`, which its caller
\* answers with; a throw of triggerResync is a throw of saveMemory.
SaveMemoryReturn(r, out) ==
    req' = [req EXCEPT ![r].pc = "done",
                       ![r].nReindex = @ + 1,
                       ![r].rs = out.rs,
                       ![r].answer = out.answer,
                       ![r].resp = IF out.threw THEN ServerError
                                   ELSE CreateResponse(req[r].kind, r, req[r].mem)]

\* saveMemory at `await triggerResync(env)`.
SaveMemoryResync(r) ==
    /\ req[r].kind \in {"restCreate", "mcpSave"}
    /\ req[r].pc = "resync"
    /\ \E out \in ResyncOutcomes :
          TriggerResync(out) /\ SaveMemoryReturn(r, out)
    /\ UNCHANGED <<store, index, nextId, now, lastMut, env, trav>>

(* ------------------------------------------------------------------ *)
(* Delete: DELETE /memories/:id.                                       *)
(* ------------------------------------------------------------------ *)
\* The ids DELETE is sent: the ids of the Memories that have been stored (a
\* caller learns an id from a create's answer or from a list), and id 0,
\* which no Memory ever had when the bucket started empty.
DeleteIds ==
    {0} \cup {req[c].mem.id.uuid :
                c \in {d \in Req : req[d].kind \in {"restCreate", "mcpSave"}
                                      /\ req[d].storeDone}}

\* `await c.env.MEMORIES_BUCKET.delete(...)` resolves.
DeleteStoreOk(r, id) ==
    /\ store' = BucketDelete(store, Key(id))
    /\ lastMut' = r
    /\ req' = [req EXCEPT ![r] =
          [Idle EXCEPT !.kind = "delete", !.pc = "resync", !.inp = id,
                       !.existed = Key(id) \in DOMAIN store,
                       !.storeDone = TRUE]]

\* `await c.env.MEMORIES_BUCKET.delete(...)` rejects: the handler throws.
DeleteStoreFails(r, id) ==
    /\ req' = [req EXCEPT ![r] =
          [Idle EXCEPT !.kind = "delete", !.pc = "done", !.inp = id,
                       !.existed = Key(id) \in DOMAIN store,
                       !.resp = ServerError]]
    /\ UNCHANGED <<store, lastMut>>

\* DELETE /memories/:id arrives and deletes from the bucket.
DeleteStore(r) ==
    \E id \in DeleteIds :
        /\ CanArrive(r)
        /\ DeleteStoreOk(r, id) \/ DeleteStoreFails(r, id)
        /\ UNCHANGED <<index, jobs, nextId, now, env, trav>>

\* DeleteReturn, had it answered 404 for an id that was not there.
DeleteReturn_NotFound(r, out) ==
    req' = [req EXCEPT ![r].pc = "done",
                       ![r].nReindex = @ + 1,
                       ![r].rs = out.rs,
                       ![r].answer = out.answer,
                       ![r].resp = IF out.threw THEN ServerError
                                   ELSE IF ~req[r].existed
                                   THEN Json(404, [error |-> "Not found"])
                                   ELSE Json(200, DeleteBody(out.rs))]

\* The delete handler after triggerResync.
DeleteReturn(r, out) ==
    req' = [req EXCEPT ![r].pc = "done",
                       ![r].nReindex = @ + 1,
                       ![r].rs = out.rs,
                       ![r].answer = out.answer,
                       ![r].resp = IF out.threw THEN ServerError
                                   ELSE Json(200, DeleteBody(out.rs))]

\* The delete handler at `await triggerResync(c.env)`.
DeleteResync(r) ==
    /\ req[r].kind = "delete"
    /\ req[r].pc = "resync"
    /\ \E out \in ResyncOutcomes :
          TriggerResync(out) /\ DeleteReturn(r, out)
    /\ UNCHANGED <<store, index, nextId, now, lastMut, env, trav>>

(* ------------------------------------------------------------------ *)
(* Manual resync: POST /memories/resync.                               *)
(* ------------------------------------------------------------------ *)
\* ResyncResponse, had the route answered success whatever the result.
ResyncResponse_AlwaysOk(rs) ==
    Json(200, [success |-> TRUE])

\* The body and status POST /memories/resync answers with.
ResyncResponse(rs) ==
    IF ~rs.success THEN Json(500, [error |-> rs.error])
    ELSE Json(200, [success |-> TRUE, jobId |-> rs.jobId])

\* The resync handler after triggerResync.
ResyncReturn(r, out) ==
    req' = [req EXCEPT ![r] =
          [Idle EXCEPT !.kind = "resync", !.pc = "done",
                       !.nReindex = 1,
                       !.rs = out.rs,
                       !.answer = out.answer,
                       !.resp = IF out.threw THEN ServerError
                                ELSE ResyncResponse(out.rs)]]

\* POST /memories/resync arrives.
ManualResync(r) ==
    /\ CanArrive(r)
    /\ \E out \in ResyncOutcomes :
          TriggerResync(out) /\ ResyncReturn(r, out)
    /\ UNCHANGED <<store, index, nextId, now, lastMut, env, trav>>

(* ------------------------------------------------------------------ *)
(* List: GET /memories.                                                *)
(* ------------------------------------------------------------------ *)
\* A create that has answered with the Memory saveMemory returned.
CreateReturned(c) ==
    /\ req[c].kind \in {"restCreate", "mcpSave"}
    /\ req[c].pc = "done"
    /\ req[c].mem # Undef
    /\ req[c].resp # ServerError

\* The ids of the Memories that completed creates have returned.
Returned == {req[c].mem.id.uuid : c \in {d \in Req : CreateReturned(d)}}

\* `await c.env.MEMORIES_BUCKET.list(...)` resolves; with nothing listed the
\* handler answers at once.
ListObjectsOk(r, q) ==
    LET listing == BucketList(store, "memories/", ListLimit(q.limit), q.cursor)
    IN  req' = [req EXCEPT ![r] =
            IF listing.objects = <<>>
            THEN [Idle EXCEPT !.kind = "list", !.pc = "done", !.inp = q,
                              !.listing = listing, !.known = Returned,
                              !.resp = Json(200, ListBody(<<>>, listing))]
            ELSE [Idle EXCEPT !.kind = "list", !.pc = "gets", !.inp = q,
                              !.listing = listing, !.known = Returned,
                              !.listed = listing.objects]]

\* `await c.env.MEMORIES_BUCKET.list(...)` rejects.
ListObjectsFails(r, q) ==
    req' = [req EXCEPT ![r] =
        [Idle EXCEPT !.kind = "list", !.pc = "done", !.inp = q,
                     !.resp = ServerError]]

\* GET /memories arrives and lists the bucket.
ListObjects(r) ==
    \E q \in env.lists :
        /\ CanArrive(r)
        /\ ListObjectsOk(r, q) \/ ListObjectsFails(r, q)
        /\ UNCHANGED <<store, index, jobs, nextId, now, lastMut, env, trav>>

\* One turn of the loop over listed.objects, the get having resolved; after
\* the last key the handler answers.
ListGetOk(r) ==
    LET turn == ListTurn(req[r].page, BucketGet(store, Head(req[r].listed)))
        left == Tail(req[r].listed)
    IN  req' = [req EXCEPT
            ![r].listed = left,
            ![r].page = turn.memories,
            ![r].pc = IF turn.threw \/ left = <<>> THEN "done" ELSE "gets",
            ![r].resp = IF turn.threw THEN ServerError
                        ELSE IF left = <<>>
                        THEN Json(200, ListBody(turn.memories, req[r].listing))
                        ELSE Undef]

\* The get of one turn rejects: the handler throws.
ListGetFails(r) ==
    req' = [req EXCEPT ![r].pc = "done", ![r].resp = ServerError]

\* GET /memories at `await c.env.MEMORIES_BUCKET.get(object.key)`.
ListGet(r) ==
    /\ req[r].kind = "list"
    /\ req[r].pc = "gets"
    /\ ListGetOk(r) \/ ListGetFails(r)
    /\ UNCHANGED <<store, index, jobs, nextId, now, lastMut, env, trav>>

(* ------------------------------------------------------------------ *)
(* Search: GET /memories/search and the search_memories tool, then     *)
(* searchMemories.                                                     *)
(* ------------------------------------------------------------------ *)
\* A search, from arrival to answer: validation, then searchMemories (the
\* provider answers or the call rejects), then the surface's response.  The
\* fallbacks of one call read the clock at one instant.
Search(r, kind, inp, rejects, args, rejected) ==
    /\ CanArrive(r)
    /\ IF rejects
       THEN /\ req' = [req EXCEPT ![r] =
                  [Idle EXCEPT !.kind = kind, !.pc = "done", !.inp = inp,
                               !.resp = rejected]]
            /\ UNCHANGED now
       ELSE \/ \E items \in env.results :
                 LET memories == NormalizeAll(items, now + 1)
                 IN  /\ req' = [req EXCEPT ![r] =
                          [Idle EXCEPT !.kind = kind, !.pc = "done", !.inp = inp,
                                       !.searched = SearchRequest(args.query,
                                                                  args.limit),
                                       !.answer = [data |-> items],
                                       !.listed = items,
                                       !.page = memories,
                                       !.resp =
                                          IF kind = "restSearch"
                                          THEN Json(200, [memories |-> memories])
                                          ELSE McpSearchResponse(r, memories)]]
                     /\ now' = IF \E i \in 1..Len(items) :
                                     ~JSONParse(TextContent(items[i])).ok
                               THEN now + 1 ELSE now
            \/ /\ req' = [req EXCEPT ![r] =
                     [Idle EXCEPT !.kind = kind, !.pc = "done", !.inp = inp,
                                  !.searched = SearchRequest(args.query,
                                                             args.limit),
                                  !.resp = ServerError]]
               /\ UNCHANGED now
    /\ UNCHANGED <<store, index, jobs, nextId, lastMut, env, trav>>

\* GET /memories/search arrives.
RestSearch(r) ==
    \E q \in env.restSearches :
        Search(r, "restSearch", q, RestSearchRejects(q), RestSearchArgs(q),
               Json(400, [error |-> "Query parameter q is required"]))

\* POST /mcp arrives with tools/call search_memories.
McpSearch(r) ==
    \E args \in env.mcpSearches :
        Search(r, "mcpSearch", args, McpSearchRejects(args),
               McpSearchArgs(args),
               McpToolResult(r, [msg |-> "Error: query is required"], TRUE))

(* ------------------------------------------------------------------ *)
(* The provider.                                                       *)
(* ------------------------------------------------------------------ *)
\* An accepted job runs: the index is rebuilt over the bucket as it is now.
RunJob ==
    /\ jobs > 0
    /\ jobs' = jobs - 1
    /\ index' = DOMAIN store
    /\ UNCHANGED <<store, nextId, now, req, lastMut, env, trav>>

(* ------------------------------------------------------------------ *)
(* The worker under concurrent requests.                               *)
(* ------------------------------------------------------------------ *)
Next ==
    \/ \E r \in Req : RestCreate(r)
    \/ \E r \in Req : McpSave(r)
    \/ \E r \in Req : SaveMemoryPut(r)
    \/ \E r \in Req : SaveMemoryResync(r)
    \/ \E r \in Req : DeleteStore(r)
    \/ \E r \in Req : DeleteResync(r)
    \/ \E r \in Req : ManualResync(r)
    \/ \E r \in Req : ListObjects(r)
    \/ \E r \in Req : ListGet(r)
    \/ \E r \in Req : RestSearch(r)
    \/ \E r \in Req : McpSearch(r)
    \/ RunJob

Spec == Init /\ [][Next]_vars

\* What a request that has arrived does next: the runtime resumes a handler
\* whose awaited promise has settled.
Resume(r) ==
    \/ SaveMemoryPut(r)
    \/ SaveMemoryResync(r)
    \/ DeleteResync(r)
    \/ ListGet(r)

\* The requests that write the bucket or ask for a reindex, and the
\* provider's jobs: lists and searches touch neither the bucket nor the
\* index.
NextSync ==
    \/ \E r \in Req : RestCreate(r)
    \/ \E r \in Req : McpSave(r)
    \/ \E r \in Req : SaveMemoryPut(r)
    \/ \E r \in Req : SaveMemoryResync(r)
    \/ \E r \in Req : DeleteStore(r)
    \/ \E r \in Req : DeleteResync(r)
    \/ \E r \in Req : ManualResync(r)
    \/ RunJob

\* Every request that has arrived runs to its answer and every accepted job
\* runs; nothing obliges a further request to arrive.
SpecFair ==
    /\ Init
    /\ [][NextSync]_vars
    /\ \A r \in Req : WF_vars(Resume(r))
    /\ WF_vars(RunJob)

(* ------------------------------------------------------------------ *)
(* Vocabulary of the properties.                                       *)
(* ------------------------------------------------------------------ *)
IsCreate(r) == req[r].kind \in {"restCreate", "mcpSave"}

IsDelete(r) == req[r].kind = "delete"

\* The request has answered.
Answered(r) == req[r].pc = "done"

\* The reindex request of r was sent and the provider rejected it.
ResyncRejected(r) ==
    /\ req[r].nReindex > 0
    /\ req[r].answer # Undef
    /\ ~Truthy(req[r].answer.success)

\* The reindex request of r was sent and the provider accepted it.
ResyncAccepted(r) ==
    /\ req[r].nReindex > 0
    /\ req[r].answer # Undef
    /\ Truthy(req[r].answer.success)

\* triggerResync returned success to r.
ResyncSucceeded(r) == req[r].rs # Undef /\ req[r].rs.success

\* The reindex request of r could not be sent, or its response not read.
ResyncThrew(r) == req[r].nReindex > 0 /\ req[r].answer = Undef

\* The ids a store delete has been executed for.
DeletedIds == {req[d].inp : d \in {e \in Req : IsDelete(e) /\ req[e].storeDone}}

\* The bucket holds, under the key of the memory's id, the memory itself.
Holds(memory) ==
    /\ Key(memory.id.uuid) \in DOMAIN store
    /\ JSONParse(store[Key(memory.id.uuid)].body)
         = [ok |-> TRUE, kind |-> "object", val |-> memory]

\* The answer of a create that reports success with the memory.
ReportsCreated(r) ==
    \/ /\ req[r].kind = "restCreate"
       /\ req[r].resp = Json(200, [success |-> TRUE, memory |-> req[r].mem])
    \/ /\ req[r].kind = "mcpSave"
       /\ req[r].resp.status = 200
       /\ ~req[r].resp.body.result.isError
       /\ req[r].resp.body.result.content[1].text.id = req[r].mem.id

\* No request is in flight and no accepted job is waiting.
Quiet == jobs = 0 /\ \A r \in Req : req[r].pc \in {"idle", "done"}

C2_WriteThenIndex ==
    \A r \in Req :
        (IsCreate(r) \/ IsDelete(r))
            => /\ req[r].nReindex > 0 => req[r].storeDone
               /\ req[r].nReindex <= 1
               /\ (Answered(r) /\ req[r].storeDone) => req[r].nReindex = 1
               /\ (req[r].storeDone /\ ~Answered(r))
                     => req[r].pc = "resync" /\ req[r].nReindex = 0
               /\ req[r].resp # Undef => Answered(r)

\* A create and a delete that both stored, reindexed once and answered.
C2_Witness ==
    \E r, q \in Req :
        /\ IsCreate(r) /\ Answered(r) /\ req[r].storeDone /\ req[r].nReindex = 1
        /\ IsDelete(q) /\ Answered(q) /\ req[q].storeDone /\ req[q].nReindex = 1

(* ------------------------------------------------------------------ *)
(* C3: the index catches up with the bucket.                           *)
(* ------------------------------------------------------------------ *)
\* The index is built over exactly the bucket's contents and nothing is in
\* flight.
InSync == Quiet /\ index = DOMAIN store

\* C3, as stated: after any creates and deletes, whether reindex requests
\* were accepted or rejected, the index eventually holds exactly what
\* remains in the bucket, and stays so.
C3_IndexCatchesUp == <>[]InSync

\* C3, amended: the index eventually holds exactly what remains in the
\* bucket provided the request that made the latest store mutation got
\* success from triggerResync; nothing retries a rejected or failed reindex
\* request, so otherwise the index may stay behind for good.
C3_IndexCatchesUpIfAccepted ==
    <>[](/\ Quiet
         /\ (lastMut # 0 /\ ResyncSucceeded(lastMut)) => index = DOMAIN store)

\* Everything has settled after an accepted create on top of a delete: the
\* index holds the new key and not the deleted one.
C3_Witness ==
    /\ Quiet
    /\ lastMut # 0 /\ IsCreate(lastMut) /\ ResyncSucceeded(lastMut)
    /\ \E d \in Req : IsDelete(d) /\ req[d].existed /\ req[d].storeDone
    /\ index = DOMAIN store
    /\ Key(req[lastMut].mem.id.uuid) \in index
    /\ Key(0) \notin index

(* ------------------------------------------------------------------ *)
(* C5: validation failures have no effect.                             *)
(* ------------------------------------------------------------------ *)
IsSearch(r) == req[r].kind \in {"restSearch", "mcpSearch"}

\* The content of a create, or the query of a search, is missing or empty.
MissingOrEmpty(r) ==
    \/ IsCreate(r) /\ req[r].inp.content \in {Undef, Str("")}
    \/ req[r].kind = "restSearch" /\ req[r].inp.q \in {Undef, Str("")}
    \/ req[r].kind = "mcpSearch" /\ req[r].inp.query \in {Undef, Str("")}

\* The answer is a validation error: 400 on REST, an isError tool result on
\* MCP.
ValidationError(r) ==
    IF req[r].kind \in {"restCreate", "restSearch"}
    THEN req[r].resp.status = 400
    ELSE /\ req[r].resp.status = 200
         /\ req[r].resp.body.result.isError

\* A request with missing or empty content or query is answered at once with
\* a validation error, having put nothing, searched nothing and requested no
\* reindex.
C5_Rejected ==
    \A r \in Req :
        MissingOrEmpty(r)
            => /\ Answered(r)
               /\ ValidationError(r)
               /\ req[r].mem = Undef
               /\ ~req[r].storeDone
               /\ req[r].nReindex = 0
               /\ req[r].searched = Undef

\* The step that answers such a request leaves bucket, index and job queue
\* as they were.
C5_NoEffect ==
    \A r \in Req :
        (req[r].pc = "idle" /\ MissingOrEmpty(r)')
            => UNCHANGED <<store, index, jobs, nextId>>

\* C5: a create whose content is missing or empty and a search whose query
\* is missing or empty, on either surface, is answered with a validation
\* error and performs no put, no provider search and no reindex request;
\* bucket and index are unchanged.
C5_ValidationFailuresHaveNoEffect == []C5_Rejected /\ [][C5_NoEffect]_vars

\* A REST create with empty content and an MCP search without query, both
\* answered with their validation error.
C5_Witness ==
    \E r, q \in Req :
        /\ req[r].kind = "restCreate" /\ req[r].inp.content = Str("")
        /\ req[r].resp.status = 400
        /\ req[q].kind = "mcpSearch" /\ req[q].inp.query = Undef
        /\ req[q].resp.body.result.isError

(* ------------------------------------------------------------------ *)
(* C6: round trip.                                                     *)
(* ------------------------------------------------------------------ *)
\* The Memory a completed create returned under id i.
ReturnedMemory(i) ==
    req[CHOOSE c \in Req : CreateReturned(c) /\ req[c].mem.id.uuid = i].mem

\* A list call that answered with the whole bucket: no cursor in, none out.
ListedAll(l) ==
    /\ req[l].kind = "list"
    /\ Answered(l)
    /\ req[l].resp.status = 200
    /\ req[l].inp.cursor = Undef
    /\ req[l].resp.body.cursor = Null

\* C6: the Memory a create returns carries the inputs (tags [] and source
\* 'user' when left out); until a delete of its id, the bucket holds under
\* memories/<id>.json a record equal to it field by field; and a list of the
\* whole bucket made after the create returned has that record.
C6_RoundTrip ==
    /\ \A c \in Req :
          CreateReturned(c)
             => LET m == req[c].mem
                    in == req[c].inp
                IN  /\ ReportsCreated(c)
                    /\ m.content = in.content
                    /\ m.tags = (IF in.tags = Undef THEN Arr(<<>>) ELSE in.tags)
                    /\ m.source = (IF in.source = Undef THEN Str("user")
                                   ELSE in.source)
                    /\ \/ m.id.uuid \in DeletedIds
                       \/ /\ Holds(m)
                          /\ \A f \in DOMAIN m :
                                JSONParse(store[Key(m.id.uuid)].body).val[f] = m[f]
    /\ \A l \in Req :
          ListedAll(l)
             => \A i \in req[l].known \ DeletedIds :
                   \E j \in 1..Len(req[l].resp.body.memories) :
                       req[l].resp.body.memories[j] = ReturnedMemory(i)

\* A create with tags and source returned, and a later list has its record.
C6_Witness ==
    \E c, l \in Req :
        /\ CreateReturned(c)
        /\ req[c].inp.tags = Arr(<<"style">>)
        /\ req[c].inp.source = Str("auto")
        /\ Holds(req[c].mem)
        /\ ListedAll(l)
        /\ req[c].mem.id.uuid \in req[l].known
        /\ \E j \in 1..Len(req[l].resp.body.memories) :
              req[l].resp.body.memories[j] = req[c].mem

(* ------------------------------------------------------------------ *)
(* C7: delete is idempotent.                                           *)
(* ------------------------------------------------------------------ *)
\* A delete fails only when the store delete or the reindex request threw,
\* never because the id is not there; and once the store delete has run the
\* key is not in the bucket.
C7_Deleted ==
    \A r \in Req :
        IsDelete(r)
            => /\ Answered(r)
                  => /\ req[r].resp = ServerError
                        <=> (~req[r].storeDone \/ ResyncThrew(r))
                     /\ req[r].resp # ServerError
                        => /\ req[r].resp.status = 200
                           /\ req[r].resp.body.success
               /\ req[r].storeDone => Key(req[r].inp) \notin DOMAIN store

\* The delete of an id that is not in the bucket leaves the bucket as it is.
C7_SecondDeleteKeeps ==
    \A r \in Req :
        (req[r].pc = "idle" /\ IsDelete(r)' /\ Key(req[r].inp') \notin DOMAIN store)
            => store' = store

\* C7: DELETE /memories/:id reports success whether or not a record of that
\* id exists (it fails only when the store or the reindex request throws);
\* after the delete of an existing id the record is not in the bucket; a
\* second delete of the id reports success too and leaves the bucket
\* unchanged.
C7_DeleteIsIdempotent == []C7_Deleted /\ [][C7_SecondDeleteKeeps]_vars

\* Two deletes of one id, the first of a record that was there, the second
\* of none, both answered with success.
C7_Witness ==
    \E r, q \in Req :
        /\ r # q
        /\ IsDelete(r) /\ IsDelete(q) /\ req[r].inp = req[q].inp
        /\ req[r].existed /\ ~req[q].existed
        /\ Answered(r) /\ req[r].resp.status = 200 /\ req[r].resp.body.success
        /\ Answered(q) /\ req[q].resp.status = 200 /\ req[q].resp.body.success
        /\ Key(req[r].inp) \notin DOMAIN store

(* ------------------------------------------------------------------ *)
(* C8: delete reports the resync outcome.                              *)
(* ------------------------------------------------------------------ *)
\* C8: when the store delete succeeded and the provider answered the
\* reindex request, the delete answers success, with the provider's job id
\* if it accepted and the provider's error message if it rejected; either
\* way the record is gone from the bucket.
C8_DeleteReportsResync ==
    \A r \in Req :
        (IsDelete(r) /\ Answered(r) /\ req[r].storeDone /\ req[r].answer # Undef)
            => /\ req[r].resp.status = 200
               /\ req[r].resp.body.success
               /\ ResyncAccepted(r)
                    => req[r].resp.body.resync
                         = [jobId |-> req[r].answer.result.id]
               /\ ResyncRejected(r)
                    => req[r].resp.body.resync
                         = [error |-> req[r].answer.errors.a[1].message]
               /\ Key(req[r].inp) \notin DOMAIN store

\* A delete of a stored record answered with the provider's rejection, and
\* a delete answered with the accepted job's id.
C8_Witness ==
    \E r, q \in Req :
        /\ IsDelete(r) /\ Answered(r) /\ req[r].existed /\ ResyncRejected(r)
        /\ req[r].resp = Json(200, [success |-> TRUE,
                                    resync |-> [error |-> Str("quota")]])
        /\ IsDelete(q) /\ Answered(q) /\ ResyncAccepted(q)
        /\ req[q].resp = Json(200, [success |-> TRUE,
                                    resync |-> [jobId |-> Str("job")]])

(* ------------------------------------------------------------------ *)
(* C4: the two surfaces given the same input.                          *)
(* ------------------------------------------------------------------ *)
\* The decimal digits of a natural number.
RECURSIVE Decimal(_)
Decimal(n) ==
    IF n < 10 THEN <<DigitChars[n + 1]>>
    ELSE Decimal(n \div 10) \o <<DigitChars[(n % 10) + 1]>>

\* A value of a tool argument as it is written in a URL's query string: a
\* missing one is left out, a number is written in decimal.
QueryParam(v) ==
    IF v.t # "number" THEN v
    ELSE IF v.n < 0 THEN Chars(<<"-">> \o Decimal(0 - v.n))
    ELSE Chars(Decimal(v.n))

\* Create inputs, each field possibly missing, empty or of the wrong type.
SurfaceCreates ==
    {[content |-> c, tags |-> t, source |-> s] :
        c \in {Undef, Str(""), Str("Always use tabs"), Num(7)},
        t \in {Undef, Null, Arr(<<>>), Arr(<<"style">>)},
        s \in {Undef, Str(""), Str("auto")}}

\* Search inputs, each field possibly missing, empty or zero.
SurfaceSearches ==
    {[query |-> q, limit |-> l] :
        q \in {Undef, Str(""), Str("tabs vs spaces")},
        l \in {Undef, Num(0), Num(3), Num(60)}}

\* One input, sent to POST /memories and to save_memory, or to
\* GET /memories/search and to search_memories.
SurfaceUniverses ==
    {[restCreates |-> {x}, mcpCreates |-> {x}, lists |-> {},
      restSearches |-> {}, mcpSearches |-> {}, results |-> {<<>>},
      answers |-> ProviderAnswers] :
        x \in SurfaceCreates}
    \cup
    {[restCreates |-> {}, mcpCreates |-> {}, lists |-> {},
      restSearches |-> {[q |-> QueryParam(a.query),
                         limit |-> QueryParam(a.limit)]},
      mcpSearches |-> {a}, results |-> SearchResults,
      answers |-> ProviderAnswers] :
        a \in SurfaceSearches}

InitSurface ==
    /\ store = <<>>
    /\ index = {}
    /\ jobs = 0
    /\ nextId = 1
    /\ now = 0
    /\ req = [r \in Req |-> Idle]
    /\ lastMut = 0
    /\ env \in SurfaceUniverses
    /\ trav = NoTraversal

\* The first request goes to the REST surface, the second to the MCP
\* surface.
NextSurface ==
    \/ RestCreate(1)
    \/ McpSave(2)
    \/ \E r \in 1..2 : SaveMemoryPut(r)
    \/ \E r \in 1..2 : SaveMemoryResync(r)
    \/ RestSearch(1)
    \/ McpSearch(2)
    \/ RunJob

SpecSurface == InitSurface /\ [][NextSurface]_vars

\* The record the create r stored.
StoredBy(r) == JSONParse(store[Key(req[r].mem.id.uuid)].body).val

\* C4, as stated: POST /memories and save_memory, sent the same content,
\* tags and source, reject alike, call put alike and, both having stored,
\* have stored records with the same content, tags and source and issued
\* the same number of reindex requests; GET /memories/search and
\* search_memories, sent the same query and limit, reject alike and send
\* the provider the same query and max_num_results.
C4_SurfacesBehaveIdentically ==
    (req[1].pc = "done" /\ req[2].pc = "done")
        => /\ ValidationError(1) <=> ValidationError(2)
           /\ (IsCreate(1) /\ IsCreate(2))
                 => /\ (req[1].mem = Undef) <=> (req[2].mem = Undef)
                    /\ (req[1].storeDone /\ req[2].storeDone)
                          => /\ StoredBy(1).content = StoredBy(2).content
                             /\ StoredBy(1).tags = StoredBy(2).tags
                             /\ StoredBy(1).source = StoredBy(2).source
                             /\ req[1].nReindex = req[2].nReindex
           /\ (IsSearch(1) /\ IsSearch(2)
                 /\ req[1].searched # Undef /\ req[2].searched # Undef)
                 => req[1].searched = req[2].searched

\* Where the surfaces part: sent limit 0, GET /memories/search asks the
\* provider for 0 results and search_memories for 5; sent a number as
\* content, POST /memories answers 400 and save_memory stores it; sent an
\* empty source, POST /memories stores '' and save_memory 'user'; sent null
\* tags, POST /memories throws and save_memory stores [].
C4_Witness ==
    /\ req[1].pc = "done" /\ req[2].pc = "done"
    /\ \/ /\ IsSearch(1) /\ IsSearch(2)
          /\ req[2].inp.limit = Num(0)
          /\ req[1].searched # Undef /\ req[2].searched # Undef
          /\ req[1].searched.max_num_results = Num(0)
          /\ req[2].searched.max_num_results = Num(DefaultSearchLimit)
       \/ /\ IsCreate(1) /\ IsCreate(2)
          /\ req[1].inp = req[2].inp
          /\ \/ /\ req[1].inp.content = Num(7)
                /\ ValidationError(1)
                /\ req[2].storeDone
             \/ /\ req[1].inp.source = Str("")
                /\ req[1].storeDone /\ req[2].storeDone
                /\ StoredBy(1).source = Str("")
                /\ StoredBy(2).source = Str("user")
             \/ /\ req[1].inp.tags = Null
                /\ req[1].inp.content = Str("Always use tabs")
                /\ req[1].resp = ServerError /\ req[1].mem = Undef
                /\ req[2].storeDone
                /\ StoredBy(2).tags = Arr(<<>>)

(* ------------------------------------------------------------------ *)
(* C9: a client that follows the cursors of GET /memories.             *)
(* ------------------------------------------------------------------ *)
\* A bucket that holds a Memory under each of the ids.
BucketOf(ids) ==
    [k \in {Key(i) : i \in ids} |->
        LET memory == NewMemory(KeyId(k), Str("Always use tabs"), Undef,
                                Undef, KeyId(k))
        IN  [body |-> JSONStringify(memory), meta |-> CustomMetadata(memory)]]

\* The limits the client asks for: none (the default), or 1..MaxLimit.
PageLimits == {Undef} \cup {Chars(Decimal(n)) : n \in 1..MaxLimit}

\* The client's first request: no cursor.
FirstPage(limit) ==
    [restCreates |-> {}, mcpCreates |-> {},
     lists |-> {[cursor |-> Undef, limit |-> limit]},
     restSearches |-> {}, mcpSearches |-> {}, results |-> {},
     answers |-> ProviderAnswers]

InitPage ==
    /\ store \in {BucketOf(ids) : ids \in SUBSET (1..MaxKeys)}
    /\ index = DOMAIN store
    /\ jobs = 0
    /\ nextId = MaxKeys + 1
    /\ now = MaxKeys
    /\ req = [r \in Req |-> Idle]
    /\ lastMut = 0
    /\ \E limit \in PageLimits :
          /\ env = FirstPage(limit)
          /\ trav = [limit |-> limit, cursor |-> Undef, pages |-> <<>>,
                     done |-> FALSE]

\* The client reads the answer of its GET /memories: it keeps the page and,
\* if the answer carries a cursor, sends the next request with it.
FollowCursor ==
    /\ ~trav.done
    /\ req[1].kind = "list"
    /\ req[1].pc = "done"
    /\ req[1].resp.status = 200
    /\ LET body == req[1].resp.body
       IN  /\ trav' = [trav EXCEPT !.pages = Append(@, body.memories),
                                   !.cursor = body.cursor,
                                   !.done = ~Truthy(body.cursor)]
           /\ IF Truthy(body.cursor)
              THEN /\ req' = [req EXCEPT ![1] = Idle]
                   /\ env' = [env EXCEPT !.lists =
                                 {[cursor |-> body.cursor,
                                   limit |-> trav.limit]}]
              ELSE UNCHANGED <<req, env>>
    /\ UNCHANGED <<store, index, jobs, nextId, now, lastMut>>

\* Nothing but the client's requests runs: the bucket is left alone.
NextPage ==
    \/ ListObjects(1)
    \/ ListGet(1)
    \/ FollowCursor

SpecPage == InitPage /\ [][NextPage]_vars

\* The ids in the bucket.
StoredIds == {KeyId(k) : k \in DOMAIN store}

\* The ids on a page.
PageIds(page) == {page[i].id.uuid : i \in 1..Len(page)}

\* The ids on the pages the client has kept.
SeenIds == UNION {PageIds(trav.pages[i]) : i \in 1..Len(trav.pages)}

\* The number of memories on the pages the client has kept.
RECURSIVE SeenCount(_)
SeenCount(pages) ==
    IF pages = <<>> THEN 0 ELSE Len(Head(pages)) + SeenCount(Tail(pages))

\* An answer to the client's request that it has not read yet.
Unread == ~trav.done /\ req[1].pc = "done" /\ req[1].resp.status = 200

\* C9: with the bucket left alone, a client that lists with a limit >= 1 (or
\* the default) and follows each cursor never sees a memory twice, makes no
\* more calls than there are memories (one, if there is none), and every
\* answer carries a cursor exactly when memories remain beyond its page;
\* once an answer carries none, the pages together are exactly the memories
\* in the bucket, each as it is stored.
C9_PaginationExhausts ==
    /\ SeenCount(trav.pages) = Cardinality(SeenIds)
    /\ SeenIds \subseteq StoredIds
    /\ Len(trav.pages) <= IF StoredIds = {} THEN 1 ELSE Cardinality(StoredIds)
    /\ \A i \in 1..Len(trav.pages) :
          \A j \in 1..Len(trav.pages[i]) : Holds(trav.pages[i][j])
    /\ Unread
          => LET body == req[1].resp.body
             IN  /\ PageIds(body.memories) \cap SeenIds = {}
                 /\ Cardinality(PageIds(body.memories)) = Len(body.memories)
                 /\ (body.cursor # Null)
                       <=> (StoredIds \ (SeenIds \cup PageIds(body.memories))
                              # {})
    /\ trav.done => /\ SeenIds = StoredIds
                    /\ trav.cursor = Null

\* The client listed MaxKeys memories one by one and reached the answer
\* without a cursor.
C9_Witness ==
    /\ trav.done
    /\ trav.limit = Chars(<<"1">>)
    /\ Len(trav.pages) = MaxKeys
    /\ SeenIds = 1..MaxKeys
    /\ SeenIds = StoredIds

(* ------------------------------------------------------------------ *)
(* C10: what searchMemories makes of the provider's items.             *)
(* ------------------------------------------------------------------ *)
\* A provider result item with the given chunks.
Item(fileId, score, content) ==
    [file_id |-> Str(fileId), score |-> Num(score), content |-> content]

\* The text of a chunk.
TextChunk(text) == [type |-> "text", text |-> text]

\* The items the provider returns: the stored text of a Memory in one chunk,
\* plain unstructured text, text that is a JSON number or null, the stored
\* text of a Memory cut short, a Memory's text split over two chunks with a
\* chunk that is not text between them, and an item without text.
ProviderItems ==
    {Item("file-a", 82, <<TextChunk(JSONStringify(Memory0))>>),
     Item("file-b", 61, <<TextChunk(<<Raw("tabs, not spaces")>>)>>),
     Item("file-c", 40, <<TextChunk(<<Prim(Num(42))>>)>>),
     Item("file-d", 35, <<TextChunk(<<Prim(Null)>>)>>),
     Item("file-e", 27,
          <<TextChunk(SubSeq(JSONStringify(Memory0), 1, 3))>>),
     Item("file-f", 19,
          <<TextChunk(SubSeq(JSONStringify(Memory0), 1, 3)),
            [type |-> "image", text |-> <<>>],
            TextChunk(SubSeq(JSONStringify(Memory0), 4,
                             Len(JSONStringify(Memory0))))>>),
     Item("file-g", 11, <<>>)}

\* The sequences of at most n items.
RECURSIVE ItemLists(_)
ItemLists(n) ==
    IF n = 0 THEN {<<>>}
    ELSE LET shorter == ItemLists(n - 1)
         IN  shorter \cup {Append(l, x) : l \in shorter, x \in ProviderItems}

\* One valid query on each surface and one list of items the provider
\* answers it with.
NormUniverses ==
    {[restCreates |-> {}, mcpCreates |-> {}, lists |-> {},
      restSearches |-> {[q |-> Str("tabs vs spaces"), limit |-> Undef]},
      mcpSearches |-> {[query |-> Str("tabs vs spaces"), limit |-> Undef]},
      results |-> {items},
      answers |-> ProviderAnswers] : items \in ItemLists(MaxItems)}

InitNorm ==
    /\ store = Bucket0
    /\ index = DOMAIN store
    /\ jobs = 0
    /\ nextId = 1
    /\ now = 0
    /\ req = [r \in Req |-> Idle]
    /\ lastMut = 0
    /\ env \in NormUniverses
    /\ trav = NoTraversal

\* The query is sent to the REST surface, then to the MCP surface.
NextNorm ==
    \/ RestSearch(1)
    \/ McpSearch(2)

SpecNorm == InitNorm /\ [][NextNorm]_vars

\* The text is the serialization of a Memory.
IsSerializedMemory(text) ==
    /\ JSONParse(text).ok
    /\ JSONParse(text).kind = "object"
    /\ {MemoryFields[i] : i \in 1..Len(MemoryFields)}
          \subseteq DOMAIN JSONParse(text).val

\* The search r has had the provider's answer.
ProviderAnswered(r) == IsSearch(r) /\ Answered(r) /\ req[r].answer # Undef

\* C10, as stated: a search the provider has answered returns one result per
\* item, in order, each with its item's score; the result of an item whose
\* text is a serialized Memory has that Memory's id, content, tags and
\* source; the result of any other item has the provider's file id as id,
\* the raw text as content, no tags and source 'auto'; and the search does
\* not answer with an error.
C10_NormalizerResilience ==
    \A r \in Req :
        ProviderAnswered(r)
            => LET items == req[r].answer.data
                   memories == req[r].page
               IN  /\ Len(memories) = Len(items)
                   /\ \A i \in 1..Len(items) :
                         LET text == TextContent(items[i])
                             m == memories[i]
                         IN  /\ m.score = items[i].score
                             /\ {"id", "content", "tags", "source"}
                                   \subseteq DOMAIN m
                             /\ IF IsSerializedMemory(text)
                                THEN /\ m.id = JSONParse(text).val.id
                                     /\ m.content = JSONParse(text).val.content
                                     /\ m.tags = JSONParse(text).val.tags
                                     /\ m.source = JSONParse(text).val.source
                                ELSE /\ m.id = items[i].file_id
                                     /\ m.content
                                           = [t |-> "string", text |-> text]
                                     /\ m.tags = Arr(<<>>)
                                     /\ m.source = Str("auto")
                   /\ req[r].resp # ServerError

\* Where the normalizer parts from the claim: the provider answers with one
\* item whose text is the JSON number 42; GET /memories/search returns a
\* result that has a score and neither id, content, tags nor source, and
\* search_memories throws while formatting it.
C10_Witness ==
    /\ ProviderAnswered(1) /\ ProviderAnswered(2)
    /\ req[1].answer.data = <<Item("file-c", 40, <<TextChunk(<<Prim(Num(42))>>)>>)>>
    /\ req[2].answer.data = req[1].answer.data
    /\ req[1].resp.status = 200
    /\ DOMAIN req[1].page[1] = {"score"}
    /\ req[2].resp = ServerError

(* ------------------------------------------------------------------ *)
(* C11: the result count sent to the provider.                         *)
(* ------------------------------------------------------------------ *)
\* The limits a caller gives: none, or an integer from below zero to above
\* the ceiling.
LimitsGiven ==
    {Undef} \cup {Num(n) : n \in (0 - MaxBeyond)..(MaxSearchResults + MaxBeyond)}

\* One limit, sent with a valid query to GET /memories/search and to
\* search_memories.
LimitUniverses ==
    {[restCreates |-> {}, mcpCreates |-> {}, lists |-> {},
      restSearches |-> {[q |-> Str("tabs vs spaces"),
                         limit |-> QueryParam(l)]},
      mcpSearches |-> {[query |-> Str("tabs vs spaces"), limit |-> l]},
      results |-> {<<>>},
      answers |-> ProviderAnswers,
      given |-> l] : l \in LimitsGiven}

InitLimit ==
    /\ store = Bucket0
    /\ index = DOMAIN store
    /\ jobs = 0
    /\ nextId = 1
    /\ now = 0
    /\ req = [r \in Req |-> Idle]
    /\ lastMut = 0
    /\ env \in LimitUniverses
    /\ trav = NoTraversal

\* The query is sent to the REST surface, then to the MCP surface.
NextLimit ==
    \/ RestSearch(1)
    \/ McpSearch(2)

SpecLimit == InitLimit /\ [][NextLimit]_vars

\* The search r has called the provider.
CalledProvider(r) == IsSearch(r) /\ Answered(r) /\ req[r].searched # Undef

\* C11, as stated: whatever integer limit the caller gives, on either
\* surface, the max_num_results sent to the provider is at most 50 and is
\* min(limit, 50); with no limit given it is 5.
C11_CapAndDefault ==
    \A r \in Req :
        CalledProvider(r)
            => LET sent == req[r].searched.max_num_results
               IN  /\ sent # NaN
                   /\ sent.n <= MaxSearchResults
                   /\ IF env.given = Undef
                      THEN sent.n = DefaultSearchLimit
                      ELSE sent = MathMin(env.given, Num(MaxSearchResults))

\* Where the code parts from the claim: search_memories called with limit 0
\* asks the provider for 5 results, while GET /memories/search with limit=0
\* asks for 0.
C11_Witness ==
    /\ env.given = Num(0)
    /\ CalledProvider(1) /\ CalledProvider(2)
    /\ req[1].searched.max_num_results = Num(0)
    /\ req[2].searched.max_num_results = Num(DefaultSearchLimit)

(* ------------------------------------------------------------------ *)
(* C12: concurrent creates.                                            *)
(* ------------------------------------------------------------------ *)
\* The create r has been given its Memory (its id is assigned).
HasMemory(r) == IsCreate(r) /\ req[r].mem # Undef

\* C12: however the steps of concurrent creates interleave, no two creates
\* share an id; every create whose put completed has its own record, with
\* its own content, tags and source, under its own key (until someone
\* deletes it); and every key of the bucket holds the record of the id it
\* is named after, put by one create or there from the start.
C12_ConcurrentCreatesNeverConflict ==
    /\ \A r, q \in Req :
          (HasMemory(r) /\ HasMemory(q) /\ r # q)
              => req[r].mem.id # req[q].mem.id
    /\ \A r \in Req :
          (IsCreate(r) /\ req[r].storeDone)
              => /\ Holds(req[r].mem) \/ req[r].mem.id.uuid \in DeletedIds
                 /\ Holds(req[r].mem)
                       => /\ StoredBy(r).content = req[r].inp.content
                          /\ req[r].inp.tags # Undef
                                => StoredBy(r).tags = req[r].inp.tags
                          /\ req[r].inp.source # Undef
                                => StoredBy(r).source = req[r].inp.source
    /\ \A k \in DOMAIN store :
          /\ JSONParse(store[k].body).ok
          /\ JSONParse(store[k].body).val.id = Uuid(KeyId(k))
          /\ \/ KeyId(k) = 0
             \/ Cardinality({r \in Req : /\ IsCreate(r) /\ req[r].storeDone
                                         /\ req[r].mem.id.uuid = KeyId(k)}) = 1

\* Two creates ran at once, the one that was given its id first putting
\* last, and both records are in the bucket under their own keys.
C12_Witness ==
    \E r, q \in Req :
        /\ r # q
        /\ HasMemory(r) /\ HasMemory(q)
        /\ Answered(r) /\ Answered(q)
        /\ req[r].mem.id.uuid < req[q].mem.id.uuid
        /\ lastMut = r
        /\ Holds(req[r].mem) /\ Holds(req[q].mem)
        /\ req[r].inp # req[q].inp
        /\ Cardinality(DOMAIN store) >= 2

(* ------------------------------------------------------------------ *)
(* C13: a delete concurrent with an unrelated create.                  *)
(* ------------------------------------------------------------------ *)
\* The create r and the delete d of another id have both written the bucket
\* and had their reindex requests accepted.
BothAccepted(r, d) ==
    /\ IsCreate(r) /\ req[r].storeDone /\ Answered(r) /\ ResyncAccepted(r)
    /\ IsDelete(d) /\ req[d].storeDone /\ Answered(d) /\ ResyncAccepted(d)
    /\ req[d].inp # req[r].mem.id.uuid

\* C13: however a delete and an unrelated create interleave, when the
\* reindex request of every request that wrote the bucket was accepted,
\* then once all requests have answered and all accepted jobs have run the
\* index is built over exactly the bucket's contents: the created memory is
\* in it and the deleted one is not.
C13_ConcurrentResyncsAreNeverIncorrect ==
    \A r, d \in Req :
        (/\ Quiet
         /\ BothAccepted(r, d)
         /\ \A x \in Req : req[x].storeDone => ResyncAccepted(x))
            => /\ index = DOMAIN store
               /\ Key(req[r].mem.id.uuid) \in index
               /\ Key(req[d].inp) \notin index

\* A create and a delete of the memory that was there from the start ran at
\* once, the delete writing the bucket last; both reindex requests were
\* accepted, both jobs have run and the index holds just the new memory.
C13_Witness ==
    \E r, d \in Req :
        /\ Quiet
        /\ BothAccepted(r, d)
        /\ req[d].existed
        /\ r < d /\ lastMut = d
        /\ index = {Key(req[r].mem.id.uuid)}
        /\ index = DOMAIN store

(* ------------------------------------------------------------------ *)
(* C14: what triggerResync makes of the provider's response.           *)
(* ------------------------------------------------------------------ *)
\* The error lists a response carries: none, null, an empty one, one whose
\* first error has a message, has none, has an empty one or is null, and
\* one with two errors.
ErrorLists ==
    {Undef, Null, Arr(<<>>),
     Arr(<<[message |-> Str("quota")]>>),
     Arr(<<[message |-> Undef]>>),
     Arr(<<[message |-> Str("")]>>),
     Arr(<<Null>>),
     Arr(<<[message |-> Str("quota")], [message |-> Str("busy")]>>),
     Arr(<<[message |-> Undef], [message |-> Str("busy")]>>)}

\* The well-formed responses of the provider: success is a boolean.
WellFormedAnswers ==
    {[success |-> Bool(ok), result |-> res, errors |-> errs] :
        ok \in BOOLEAN,
        res \in {Undef, [id |-> Str("job")]},
        errs \in ErrorLists}

\* One response, given to every reindex request of the behaviour.
ResyncUniverses ==
    {[restCreates |-> {}, mcpCreates |-> {}, lists |-> {},
      restSearches |-> {}, mcpSearches |-> {}, results |-> {},
      answers |-> {a}] : a \in WellFormedAnswers}

InitResync ==
    /\ store = Bucket0
    /\ index = DOMAIN store
    /\ jobs = 0
    /\ nextId = 1
    /\ now = 0
    /\ req = [r \in Req |-> Idle]
    /\ lastMut = 0
    /\ env \in ResyncUniverses
    /\ trav = NoTraversal

\* POST /memories/resync, up to twice, and the provider's jobs.
NextResync ==
    \/ \E r \in 1..2 : ManualResync(r)
    \/ RunJob

SpecResync == InitResync /\ [][NextResync]_vars

\* The reason a rejecting response gives: the message of its first error, if
\* it has one that is not empty.
ReasonOf(answer) ==
    IF answer.errors.t # "array" \/ answer.errors.a = <<>> THEN Str("Unknown error")
    ELSE LET first == Head(answer.errors.a)
         IN  IF first = Null THEN Str("Unknown error")
             ELSE IF first.message \in {Undef, Str("")} THEN Str("Unknown error")
             ELSE first.message

\* The provider has answered the reindex request of POST /memories/resync r.
ResyncAnswered(r) ==
    req[r].kind = "resync" /\ Answered(r) /\ req[r].answer # Undef

\* C14: whenever the provider answers a reindex request with a well-formed
\* response, triggerResync returns a value: success with the provider's job
\* id for success=true; failure with the first error's message, or with
\* 'Unknown error' when there is no error list, no first error or no
\* message, for success=false.  POST /memories/resync answers the first
\* with success and the job id and the second with an error carrying the
\* reason.
C14_ResyncResultIsAValue ==
    \A r \in Req :
        ResyncAnswered(r)
            => LET answer == req[r].answer
                   rs == req[r].rs
               IN  /\ rs # Undef
                   /\ req[r].resp # ServerError
                   /\ IF answer.success = Bool(TRUE)
                      THEN /\ rs.success
                           /\ rs.jobId = IF answer.result = Undef THEN Undef
                                         ELSE answer.result.id
                           /\ req[r].resp
                                = Json(200, [success |-> TRUE,
                                             jobId |-> rs.jobId])
                      ELSE /\ ~rs.success
                           /\ rs.error = ReasonOf(answer)
                           /\ req[r].resp
                                = Json(500, [error |-> ReasonOf(answer)])

\* One rejection was reported with the first of two messages and one, whose
\* first error has no message, with the generic reason.
C14_Witness ==
    \E r \in Req :
        /\ ResyncAnswered(r)
        /\ req[r].answer.success = Bool(FALSE)
        /\ \/ /\ req[r].answer.errors
                   = Arr(<<[message |-> Str("quota")],
                           [message |-> Str("busy")]>>)
              /\ req[r].resp = Json(500, [error |-> Str("quota")])
           \/ /\ req[r].answer.errors
                   = Arr(<<[message |-> Undef], [message |-> Str("busy")]>>)
              /\ req[r].resp = Json(500, [error |-> Str("Unknown error")])

(* ------------------------------------------------------------------ *)
(* C15: failures of the durable store.                                 *)
(* ------------------------------------------------------------------ *)
\* The put of the create r was called and failed.
PutFailed(r) ==
    HasMemory(r) /\ Answered(r) /\ ~req[r].storeDone

\* The store delete of the delete r failed.
DeleteFailed(r) ==
    IsDelete(r) /\ Answered(r) /\ ~req[r].storeDone

\* The store listing of the list r failed, or a get (or the parse of what
\* it got) did before every listed key was read.
ListFailed(r) ==
    /\ req[r].kind = "list"
    /\ Answered(r)
    /\ req[r].listing = Undef \/ req[r].listed # <<>>

\* C15: a create whose put failed answers with an error, returns no Memory
\* and has issued no reindex request; a delete whose store delete failed
\* answers with an error and has issued no reindex request; a list whose
\* listing or whose get failed answers with an error and no page.  The
\* other way round, a create that reports its Memory has put it, a delete
\* that reports success has deleted, and a list that answers a page has read
\* every key it listed.
C15_StoreErrorsAreHardFailures ==
    \A r \in Req :
        /\ PutFailed(r)
              => /\ req[r].resp = ServerError
                 /\ ~ReportsCreated(r)
                 /\ req[r].nReindex = 0
        /\ DeleteFailed(r)
              => /\ req[r].resp = ServerError
                 /\ req[r].nReindex = 0
        /\ ListFailed(r) => req[r].resp = ServerError
        /\ (HasMemory(r) /\ Answered(r) /\ req[r].resp # ServerError)
              => req[r].storeDone
        /\ (IsDelete(r) /\ Answered(r) /\ req[r].resp # ServerError)
              => req[r].storeDone
        /\ (req[r].kind = "list" /\ Answered(r) /\ req[r].resp # ServerError)
              => /\ req[r].listing # Undef
                 /\ req[r].listed = <<>>
                 /\ req[r].resp.body.memories = req[r].page

\* A create whose put failed and a delete whose store delete failed, both
\* answered with an error and without a reindex request.
C15_Witness ==
    \E r, d \in Req :
        /\ PutFailed(r) /\ req[r].resp = ServerError /\ req[r].nReindex = 0
        /\ DeleteFailed(d) /\ req[d].resp = ServerError /\ req[d].nReindex = 0
        /\ jobs = 0

\* A list whose get failed after its listing, answered with an error.
C15_ListWitness ==
    \E r \in Req :
        /\ ListFailed(r)
        /\ req[r].listing # Undef
        /\ req[r].resp = ServerError

(* ------------------------------------------------------------------ *)
(* C16: memories are immutable and operations touch their own key.     *)
(* ------------------------------------------------------------------ *)
\* The step is the put of a create, adding the key of its Memory.
PutsOwnKey(r) ==
    /\ IsCreate(r)
    /\ req[r].pc = "put"
    /\ req'[r].storeDone
    /\ DOMAIN store' = (DOMAIN store) \cup {Key(req[r].mem.id.uuid)}
    /\ Key(req[r].mem.id.uuid) \notin DOMAIN store
    /\ req[r].mem.id.uuid \notin DeletedIds
    /\ JSONParse(store'[Key(req[r].mem.id.uuid)].body).val = req[r].mem

\* The step is the store delete of a delete, removing the key of its id.
DeletesOwnKey(r) ==
    /\ req[r].pc = "idle"
    /\ req'[r].kind = "delete"
    /\ req'[r].storeDone
    /\ DOMAIN store' = (DOMAIN store) \ {Key(req'[r].inp)}

\* A step leaves every record that stays in the bucket as it was, and
\* changes the bucket's keys only as the put of one create or the store
\* delete of one delete does.
C16_TouchesOwnKey ==
    /\ \A k \in (DOMAIN store) \cap (DOMAIN store') : store'[k] = store[k]
    /\ store' # store
          => \E r \in Req : PutsOwnKey(r) \/ DeletesOwnKey(r)

\* C16: across every interleaving of create, delete, list, search and
\* resync, the record under an id never changes between its creation and
\* its deletion; a create adds exactly one new key, a delete removes only
\* the key of its id, and no other step (of a list, a search, a resync, a
\* job) changes the bucket.
C16_MemoriesAreImmutable == [][C16_TouchesOwnKey]_vars

\* A create has added its key next to the record that was there, which is
\* unchanged, and a list has since read both.
C16_Witness ==
    \E r, l \in Req :
        /\ HasMemory(r) /\ Answered(r) /\ Holds(req[r].mem)
        /\ Holds(Memory0)
        /\ store[Key(0)] = Bucket0[Key(0)]
        /\ Cardinality(DOMAIN store) = 2
        /\ req[l].kind = "list" /\ Answered(l)
        /\ Len(req[l].page) = 2

(* ------------------------------------------------------------------ *)
(* C17: a list while creates and deletes run.                          *)
(* ------------------------------------------------------------------ *)
\* The list r has had its store listing.
HasListed(r) == req[r].kind = "list" /\ req[r].listing # Undef

\* The keys the listing of r returned.
ListedKeys(r) ==
    {req[r].listing.objects[i] : i \in 1..Len(req[r].listing.objects)}

\* m is a whole record: the Memory a create has put, or the one that was
\* there from the start.
WholeRecord(m) ==
    \/ m = Memory0
    \/ \E c \in Req : HasMemory(c) /\ req[c].storeDone /\ req[c].mem = m

\* Every memory on the page of a list is a whole record whose key the store
\* listing of that call returned, no record is on the page twice, and the
\* answer carries that page.
C17_PageOfWholeRecords ==
    \A r \in Req :
        HasListed(r)
            => /\ \A i \in 1..Len(req[r].page) :
                     /\ "id" \in DOMAIN req[r].page[i]
                     /\ WholeRecord(req[r].page[i])
                     /\ Key(req[r].page[i].id.uuid) \in ListedKeys(r)
                     /\ \A j \in 1..Len(req[r].page) :
                           req[r].page[j] = req[r].page[i] => j = i
               /\ (Answered(r) /\ req[r].resp # ServerError)
                     => req[r].resp.body.memories = req[r].page

\* A step of a list: the store listing returns keys that are in the bucket
\* at that moment and is kept as it is; a turn of the loop whose get
\* resolves pushes the record under the key as it is in the bucket at that
\* moment, or nothing when the key is gone, and goes on to the next key; a
\* turn that fails pushes nothing.  A create that puts after the listing is
\* not among the listed keys.
C17_ListStep ==
    \A r \in Req :
        /\ HasListed(r) => req'[r].listing = req[r].listing
        /\ (req[r].pc = "idle" /\ req'[r].kind = "list"
              /\ req'[r].listing # Undef)
              => {req'[r].listing.objects[i] :
                     i \in 1..Len(req'[r].listing.objects)}
                   \subseteq DOMAIN store
        /\ (req[r].kind = "list" /\ req[r].pc = "gets" /\ req'[r] # req[r])
              => IF req'[r].resp = ServerError
                 THEN req'[r].page = req[r].page
                 ELSE /\ req'[r].listed = Tail(req[r].listed)
                      /\ req'[r].page
                           = IF Head(req[r].listed) \in DOMAIN store
                             THEN Append(req[r].page,
                                    JSONParse(store[Head(req[r].listed)].body).val)
                             ELSE req[r].page
        /\ \A c \in Req :
              (HasListed(r) /\ PutsOwnKey(c))
                  => Key(req[c].mem.id.uuid) \notin ListedKeys(r)

\* C17: however a list interleaves with creates and deletes, every memory
\* on its page is a whole stored record that was in the bucket during the
\* call; a key deleted between the listing and its get is skipped, neither
\* returned in part nor an error; and a record created after the listing is
\* not on the page.
C17_ListUnderConcurrentMutation ==
    []C17_PageOfWholeRecords /\ [][C17_ListStep]_vars

\* A delete removed the only listed key between the listing and its get:
\* the list answered an empty page, without error.
C17_Witness ==
    \E l, d \in Req :
        /\ HasListed(l) /\ Answered(l)
        /\ req[l].listing.objects = <<Key(0)>>
        /\ IsDelete(d) /\ req[d].storeDone /\ req[d].existed
        /\ req[d].inp = 0
        /\ l < d
        /\ req[l].resp = Json(200, ListBody(<<>>, req[l].listing))

(* ------------------------------------------------------------------ *)
(* C18: what a create that ended in an error has left behind.          *)
(* ------------------------------------------------------------------ *)
\* The create r has answered with an error: a validation error or a failure
\* of the handler.
CreateFailed(r) ==
    /\ IsCreate(r)
    /\ Answered(r)
    /\ ValidationError(r) \/ req[r].resp = ServerError

\* C18, as stated: once a create has answered with an error (a validation
\* failure, a store failure or a failed reindex request), the bucket holds
\* no record that create wrote.
C18_FailedCreateLeavesNoTrace ==
    \A r \in Req :
        CreateFailed(r)
            => \/ req[r].mem = Undef
               \/ Key(req[r].mem.id.uuid) \notin DOMAIN store

\* Where the code parts from the claim: a create whose reindex request
\* could not be sent answered with an error after its put; the caller sent
\* the same input again, and the bucket holds two records of it.
C18_Witness ==
    \E r, q \in Req :
        /\ r < q
        /\ CreateFailed(r) /\ ResyncThrew(r) /\ Holds(req[r].mem)
        /\ HasMemory(q) /\ Answered(q) /\ ReportsCreated(q)
        /\ Holds(req[q].mem)
        /\ req[q].inp = req[r].inp
        /\ req[q].kind = req[r].kind
        /\ req[q].mem.id # req[r].mem.id

(* ------------------------------------------------------------------ *)
(* C19: the auth middleware in front of every route.                   *)
(* ------------------------------------------------------------------ *)
\* 'Bearer '
BearerPrefix == <<"B", "e", "a", "r", "e", "r", " ">>

\* authHeader.startsWith(prefix)
StartsWith(v, prefix) ==
    /\ Len(v.chars) >= Len(prefix)
    /\ SubSeq(v.chars, 1, Len(prefix)) = prefix

\* authHeader.slice(n)
Slice(v, n) == Chars(SubSeq(v.chars, n + 1, Len(v.chars)))

\* Middleware, had it only looked for the 'Bearer ' prefix.
Middleware_PrefixOnly(path, authHeader, apiKey) ==
    IF path = "/health" THEN [next |-> TRUE]
    ELSE IF ~Truthy(apiKey)
    THEN [next |-> FALSE,
          resp |-> Json(500, [error |-> "Server not configured with API key"])]
    ELSE IF ~Truthy(authHeader) \/ ~StartsWith(authHeader, BearerPrefix)
    THEN [next |-> FALSE,
          resp |-> Json(401,
                        [error |-> "Missing or invalid Authorization header"])]
    ELSE [next |-> TRUE]

\* app.use('*', ...): whether the request goes on to its route, and what it
\* is answered otherwise.
Middleware(path, authHeader, apiKey) ==
    IF path = "/health" THEN [next |-> TRUE]
    ELSE IF ~Truthy(apiKey)
    THEN [next |-> FALSE,
          resp |-> Json(500, [error |-> "Server not configured with API key"])]
    ELSE IF ~Truthy(authHeader) \/ ~StartsWith(authHeader, BearerPrefix)
    THEN [next |-> FALSE,
          resp |-> Json(401,
                        [error |-> "Missing or invalid Authorization header"])]
    ELSE IF Slice(authHeader, 7) # apiKey
    THEN [next |-> FALSE, resp |-> Json(401, [error |-> "Invalid API key"])]
    ELSE [next |-> TRUE]

\* The paths of the routes behind the middleware.
GatedPaths ==
    {"/memories", "/memories/search", "/memories/resync", "/memories/:id",
     "/mcp"}

\* The API keys the server is configured with: none, an empty one, one.
ApiKeys == {Undef, Chars(<<>>), Chars(<<"k", "1">>)}

\* The Authorization headers a client sends: none, an empty one, the key
\* after 'Bearer ', another key, a longer one, the key after 'bearer ', the
\* bare key, 'Bearer' without the space and the key after two spaces.
AuthorizationHeaders ==
    {Undef,
     Chars(<<>>),
     Chars(BearerPrefix \o <<"k", "1">>),
     Chars(BearerPrefix \o <<"k", "2">>),
     Chars(BearerPrefix \o <<"k", "1", "x">>),
     Chars(BearerPrefix),
     Chars(<<"b", "e", "a", "r", "e", "r", " ", "k", "1">>),
     Chars(<<"k", "1">>),
     Chars(<<"B", "e", "a", "r", "e", "r">>),
     Chars(BearerPrefix \o <<" ", "k", "1">>)}

\* A server configuration and a client's header, with one valid input for
\* each route.
AuthUniverses ==
    {[restCreates |-> {[content |-> Str("Always use tabs"),
                        tags |-> Undef, source |-> Undef]},
      mcpCreates |-> {[content |-> Str("Always use tabs"),
                       tags |-> Undef, source |-> Undef]},
      lists |-> {[cursor |-> Undef, limit |-> Undef]},
      restSearches |-> {[q |-> Str("tabs vs spaces"), limit |-> Undef]},
      mcpSearches |-> {[query |-> Str("tabs vs spaces"), limit |-> Undef]},
      results |-> {<<>>},
      answers |-> {Accepted},
      apiKey |-> key,
      authorization |-> header] :
        key \in ApiKeys, header \in AuthorizationHeaders}

InitAuth ==
    /\ store = Bucket0
    /\ index = DOMAIN store
    /\ jobs = 0
    /\ nextId = 1
    /\ now = 0
    /\ req = [r \in Req |-> Idle]
    /\ lastMut = 0
    /\ env \in AuthUniverses
    /\ trav = NoTraversal

\* The middleware lets the request to `path` through.
Passes(path) == Middleware(path, env.authorization, env.apiKey).next

\* The middleware answers a request to a gated path itself.
Refuse(r) ==
    \E path \in GatedPaths :
        /\ CanArrive(r)
        /\ ~Passes(path)
        /\ req' = [req EXCEPT ![r] =
              [Idle EXCEPT !.kind = "refused", !.pc = "done",
                           !.inp = [path |-> path],
                           !.resp = Middleware(path, env.authorization,
                                               env.apiKey).resp]]
        /\ UNCHANGED <<store, index, jobs, nextId, now, lastMut, env, trav>>

\* GET /health
Health(r) ==
    /\ CanArrive(r)
    /\ Passes("/health")
    /\ req' = [req EXCEPT ![r] =
          [Idle EXCEPT !.kind = "health", !.pc = "done",
                       !.inp = [path |-> "/health"],
                       !.resp = Json(200, [status |-> "ok"])]]
    /\ UNCHANGED <<store, index, jobs, nextId, now, lastMut, env, trav>>

\* The routes, each behind the middleware.
AuthRestCreate(r) == Passes("/memories") /\ RestCreate(r)
AuthMcpSave(r) == Passes("/mcp") /\ McpSave(r)
AuthDelete(r) == Passes("/memories/:id") /\ DeleteStore(r)
AuthResync(r) == Passes("/memories/resync") /\ ManualResync(r)
AuthList(r) == Passes("/memories") /\ ListObjects(r)
AuthRestSearch(r) == Passes("/memories/search") /\ RestSearch(r)
AuthMcpSearch(r) == Passes("/mcp") /\ McpSearch(r)

\* Two requests of one client against one server configuration.
NextAuth ==
    \/ \E r \in 1..2 : Refuse(r)
    \/ \E r \in 1..2 : Health(r)
    \/ \E r \in 1..2 : AuthRestCreate(r)
    \/ \E r \in 1..2 : AuthMcpSave(r)
    \/ \E r \in 1..2 : AuthDelete(r)
    \/ \E r \in 1..2 : AuthResync(r)
    \/ \E r \in 1..2 : AuthList(r)
    \/ \E r \in 1..2 : AuthRestSearch(r)
    \/ \E r \in 1..2 : AuthMcpSearch(r)
    \/ \E r \in 1..2 : SaveMemoryPut(r)
    \/ \E r \in 1..2 : SaveMemoryResync(r)
    \/ \E r \in 1..2 : DeleteResync(r)
    \/ \E r \in 1..2 : ListGet(r)
    \/ RunJob

SpecAuth == InitAuth /\ [][NextAuth]_vars

\* The server has a key and the client's header is 'Bearer ' followed by it.
Authorized ==
    /\ env.apiKey \notin {Undef, Chars(<<>>)}
    /\ env.authorization = Chars(BearerPrefix \o env.apiKey.chars)

\* Without the right credential nothing has happened to the bucket, the
\* index, the job queue or the id and clock counters and no route has run:
\* every request to a gated path was answered 500 by a server without a key
\* and 401 by a server with one.  With the right credential no request is
\* refused.  /health is answered 200 either way.
C19_Gated ==
    /\ ~Authorized
          => /\ store = Bucket0
             /\ index = DOMAIN Bucket0
             /\ jobs = 0 /\ nextId = 1 /\ now = 0 /\ lastMut = 0
             /\ \A r \in Req : req[r].kind \in {"none", "refused", "health"}
    /\ \A r \in Req :
          /\ req[r].kind = "refused"
                => /\ ~Authorized
                   /\ req[r].resp.status
                        = IF env.apiKey \in {Undef, Chars(<<>>)}
                          THEN 500 ELSE 401
          /\ req[r].kind = "health"
                => req[r].resp = Json(200, [status |-> "ok"])

\* The step that answers /health or refuses a request changes nothing but
\* that request.
C19_NoEffect ==
    \A r \in Req :
        (req[r].pc = "idle" /\ req'[r].kind \in {"refused", "health"})
            => /\ UNCHANGED <<store, index, jobs, nextId, now, lastMut>>
               /\ \A q \in Req \ {r} : req'[q] = req[q]

\* C19: for every request to a path other than /health, no store
\* operation, no provider search and no reindex request happens unless the
\* server has an API key and the Authorization header is exactly 'Bearer '
\* followed by it; otherwise the answer is 401, or 500 when no key is
\* configured, and store and index are unchanged.  /health is answered
\* without a credential and changes nothing.
C19_AuthenticationGatesEveryEffect == []C19_Gated /\ [][C19_NoEffect]_vars

\* A server with a key refused a request that carried another key with 401
\* and answered /health, the bucket being as it was.
C19_Witness ==
    \E r, h \in Req :
        /\ env.apiKey = Chars(<<"k", "1">>)
        /\ env.authorization = Chars(BearerPrefix \o <<"k", "2">>)
        /\ req[r].kind = "refused"
        /\ req[r].resp = Json(401, [error |-> "Invalid API key"])
        /\ req[h].kind = "health"
        /\ req[h].resp.status = 200
        /\ store = Bucket0

\* With the right credential the routes do run.
C19_AuthorizedWitness ==
    \E r \in Req :
        /\ Authorized
        /\ HasMemory(r) /\ Answered(r) /\ Holds(req[r].mem)

(* ------------------------------------------------------------------ *)
(* C20: the JSON-RPC envelope of POST /mcp.                            *)
(* ------------------------------------------------------------------ *)
\* mcpResult(id, result), answered by c.json.
McpResult(id, result) ==
    Json(200, [jsonrpc |-> "2.0", id |-> id, result |-> result])

\* mcpError(id, code, message), answered by c.json.
McpError(id, code, message) ==
    Json(200, [jsonrpc |-> "2.0", id |-> id,
               error |-> [code |-> code, message |-> message]])

\* The names of MCP_TOOLS.
McpToolNames == {"save_memory", "search_memories"}

\* `params?.name`.
ToolName(params) ==
    IF params \in {Undef, Null} THEN Undef
    ELSE IF "name" \in DOMAIN params THEN params.name ELSE Undef

\* The request is a tools/call of one of the two tools, which the save and
\* search handlers answer.
CallsKnownTool(request) ==
    /\ request.method = Str("tools/call")
    /\ ToolName(request.params) \in {Str(n) : n \in McpToolNames}

\* handleMcpRequest for every request that is not a call of one of the two
\* tools: the switch on the method.
HandleMcpRequest(request) ==
    CASE request.method = Str("initialize")
            -> McpResult(request.id,
                  [protocolVersion |-> "2024-11-05",
                   capabilities |-> [tools |-> "{}"],
                   serverInfo |-> [name |-> "agent-memories",
                                   version |-> "1.0.0"]])
      [] request.method = Str("tools/list")
            -> McpResult(request.id, [tools |-> McpToolNames])
      [] request.method = Str("tools/call")
            -> McpToolResult(request.id,
                  [msg |-> "Unknown tool: ",
                   toolName |-> ToolName(request.params)], TRUE)
      [] request.method \in {Str("notifications/initialized"),
                             Str("notifications/cancelled")}
            -> McpResult(request.id, [empty |-> TRUE])
      [] OTHER
            -> McpError(request.id, -32601,
                  [msg |-> "Method not found: ", method |-> request.method])

\* The ids JSON-RPC requests carry.
McpIds == {Num(7), Str("req-a")}

\* The JSON-RPC requests POST /mcp is sent, other than calls of the two
\* tools.
McpRequests ==
    {[id |-> id, method |-> method, params |-> Undef] :
        id \in McpIds,
        method \in {Str("initialize"), Str("tools/list"), Str("tools/call"),
                    Str("notifications/initialized"),
                    Str("notifications/cancelled"),
                    Str("resources/list"), Str(""), Undef}}
    \cup
    {[id |-> id, method |-> Str("tools/call"), params |-> params] :
        id \in McpIds,
        params \in {Null,
                    [arguments |-> [content |-> Str("Always use tabs")]],
                    [name |-> Str("forget_memory"),
                     arguments |-> [id |-> Str("0")]],
                    [name |-> Str("Save_Memory"),
                     arguments |-> [content |-> Str("Always use tabs")]]}}

\* What the MCP requests of a behaviour are drawn from.
McpUniverse ==
    [restCreates |-> {}, lists |-> {}, restSearches |-> {},
     mcpCreates |-> {[content |-> Undef, tags |-> Undef, source |-> Undef],
                     [content |-> Str(""), tags |-> Undef, source |-> Undef],
                     [content |-> Str("Always use tabs"), tags |-> Undef,
                      source |-> Undef]},
     mcpSearches |-> McpSearchInputs,
     results |-> SearchResults,
     answers |-> ProviderAnswers,
     mcpRequests |-> McpRequests]

InitMcp ==
    /\ store = Bucket0
    /\ index = DOMAIN store
    /\ jobs = 0
    /\ nextId = 1
    /\ now = 0
    /\ req = [r \in Req |-> Idle]
    /\ lastMut = 0
    /\ env = McpUniverse
    /\ trav = NoTraversal

\* POST /mcp arrives with a request that is not a call of one of the two
\* tools: handleMcpRequest returns at once and the route answers with what
\* it returned.
McpOther(r) ==
    \E request \in env.mcpRequests :
        /\ ~CallsKnownTool(request)
        /\ CanArrive(r)
        /\ req' = [req EXCEPT ![r] =
              [Idle EXCEPT !.kind = "mcpOther", !.pc = "done",
                           !.inp = request,
                           !.resp = HandleMcpRequest(request)]]
        /\ UNCHANGED <<store, index, jobs, nextId, now, lastMut, env, trav>>

\* Two requests to POST /mcp, and the provider's reindex jobs.
NextMcp ==
    \/ \E r \in 1..2 : McpOther(r)
    \/ \E r \in 1..2 : McpSave(r)
    \/ \E r \in 1..2 : McpSearch(r)
    \/ \E r \in 1..2 : SaveMemoryPut(r)
    \/ \E r \in 1..2 : SaveMemoryResync(r)
    \/ RunJob

SpecMcp == InitMcp /\ [][NextMcp]_vars

\* The id the request in slot r carried: a tool call of the model is
\* identified by its slot.
RequestId(r) ==
    IF req[r].kind = "mcpOther" THEN req[r].inp.id ELSE r

\* The answer to r is one JSON-RPC response for r's id.
IsJsonRpcResponse(r) ==
    /\ req[r].resp.status = 200
    /\ DOMAIN req[r].resp.body \in {{"jsonrpc", "id", "result"},
                                    {"jsonrpc", "id", "error"}}
    /\ req[r].resp.body.jsonrpc = "2.0"
    /\ req[r].resp.body.id = RequestId(r)

\* The answer to r is a tool result flagged isError, not a JSON-RPC error.
IsToolError(r) ==
    /\ IsJsonRpcResponse(r)
    /\ "result" \in DOMAIN req[r].resp.body
    /\ req[r].resp.body.result.isError

\* r was a tools/call naming no tool of the server.
UnknownTool(r) ==
    /\ req[r].kind = "mcpOther"
    /\ req[r].inp.method = Str("tools/call")

\* r was a call of save_memory or search_memories that failed validation.
FailedValidation(r) ==
    \/ req[r].kind = "mcpSave" /\ McpSaveRejects(req[r].inp)
    \/ req[r].kind = "mcpSearch" /\ McpSearchRejects(req[r].inp)

\* r's handler threw: the put or the reindex request of save_memory, or
\* the provider search or the formatting of search_memories.
ToolCallThrew(r) ==
    /\ req[r].kind \in {"mcpSave", "mcpSearch"}
    /\ Answered(r)
    /\ req[r].resp = ServerError

\* What C20 says of the requests that did not throw.
C20_Dispatch ==
    \A r \in Req :
        (Answered(r) /\ req[r].kind \in {"mcpOther", "mcpSave", "mcpSearch"}
                     /\ ~ToolCallThrew(r))
            => /\ IsJsonRpcResponse(r)
               /\ (req[r].kind = "mcpOther"
                      /\ req[r].inp.method \in {Str("initialize"),
                                                Str("tools/list")})
                     => "result" \in DOMAIN req[r].resp.body
               /\ (req[r].kind = "mcpOther"
                      /\ req[r].inp.method \in {Str("resources/list"),
                                                Str(""), Undef})
                     => /\ "error" \in DOMAIN req[r].resp.body
                        /\ req[r].resp.body.error.code = -32601
               /\ (UnknownTool(r) \/ FailedValidation(r))
                     => /\ IsToolError(r)
                        /\ ~req[r].storeDone
                        /\ req[r].nReindex = 0
                        /\ req[r].searched = Undef

\* The step that answers an unknown method, an unknown tool or a call that
\* failed validation changes nothing but that request.
C20_NoEffect ==
    \A r \in Req :
        (/\ req[r].pc = "idle"
         /\ req'[r].pc = "done"
         /\ \/ req'[r].kind = "mcpOther"
            \/ req'[r].kind = "mcpSave" /\ McpSaveRejects(req'[r].inp)
            \/ req'[r].kind = "mcpSearch" /\ McpSearchRejects(req'[r].inp))
            => UNCHANGED <<store, index, jobs, nextId, now, lastMut>>

\* What the code does guarantee: every MCP request whose handler does not
\* throw gets one JSON-RPC response with its id, of the kind its method
\* calls for, and the requests answered without a tool running change
\* nothing.
C20_DispatchHolds == []C20_Dispatch /\ [][C20_NoEffect]_vars

\* C20: every MCP JSON-RPC request gets exactly one JSON-RPC response
\* carrying the request's id: initialize and tools/list a result, an
\* unknown method the error -32601, an unknown tool or failed validation a
\* tool result flagged isError with no effect on store or index, and a
\* save_memory or search_memories whose store or provider call fails is
\* still answered with a JSON-RPC response for that id.
C20_EveryRequestGetsAJsonRpcResponse ==
    /\ C20_Dispatch
    /\ \A r \in Req :
          (Answered(r) /\ req[r].kind \in {"mcpSave", "mcpSearch"})
              => IsJsonRpcResponse(r)

\* A save_memory whose put was rejected was answered with the framework's
\* 500 page, which is no JSON-RPC response and carries no id; an unknown
\* method before it got -32601.
C20_Witness ==
    \E r, q \in Req :
        /\ req[r].kind = "mcpSave" /\ ToolCallThrew(r)
        /\ ~req[r].storeDone /\ req[r].nReindex = 0
        /\ req[q].kind = "mcpOther"
        /\ req[q].inp.method = Str("resources/list")
        /\ req[q].resp.body.error.code = -32601

\* An unknown tool was answered with a tool result flagged isError.
C20_UnknownToolWitness ==
    \E r \in Req :
        /\ UnknownTool(r) /\ Answered(r) /\ IsToolError(r)
        /\ ToolName(req[r].inp.params) = Str("forget_memory")
====
